---- MODULE Spec2Model ----
(***************************************************************************)
(* Calm Sphere backend: the safety-gated response pipeline of              *)
(* core/llm.py (LLMService), the provider clients of core/huggingface.py   *)
(* and core/llm_clients.py.                                                *)
(*                                                                         *)
(* Conventions                                                             *)
(*  - a Python float score is kept in hundredths (0.35 is 35);             *)
(*  - free text (user message, reply) is a sequence of characters, with    *)
(*    fixed literals of the source kept as one element;                    *)
(*  - the raw text of a classifier response is a sequence of tokens:       *)
(*    prose without braces, a lone "{", a lone "}", or one complete JSON   *)
(*    object with its decoded members;                                     *)
(*  - a Python call either returns a value or raises: [raised, value].     *)
(***************************************************************************)
EXTENDS Integers, Sequences, FiniteSets, TLC

VARIABLES
    \* ---- LLMService configuration (core/llm.py __init__) ----
    mock_mode, enable_risk, enable_emotion, api_key, client, store,
    fallback_providers,
    \* ---- one generate_response request ----
    user_message, stub, pc, history, risk, violence_assessment, emotion,
    strengths, user_patterns, strategy, calls, store_reads, reply, raised,
    \* ---- one classifier applied to one response text ----
    cl,
    \* ---- one chat_completions call of a provider client ----
    rc,
    \* ---- one _get_thread_history call on one stored thread ----
    hs,
    \* ---- one streamed reply and its consumer (api/chat.py) ----
    sr,
    \* ---- one thread's title, the requests and their titling workers ----
    bt,
    \* ---- the daily greeting cache and the requests reading it ----
    rm,
    \* ---- the in-memory conversation store and the requests writing it ----
    db

orchVars == <<mock_mode, enable_risk, enable_emotion, api_key, client, store,
              fallback_providers, user_message, stub, pc, history, risk,
              violence_assessment, emotion, strengths, user_patterns,
              strategy, calls, store_reads, reply, raised>>

vars == <<orchVars, cl, rc, hs, sr, bt, rm, db>>

----------------------------------------------------------------------------
(* Bounds of the model *)

MaxTokens == 2        \* tokens in a classifier response text
MaxAttemptsBound == 3 \* largest configured max_attempts
MaxPhrases == 4       \* phrases in a list of an analysis response

----------------------------------------------------------------------------
(* Text *)

RECURSIVE LStrip(_)
LStrip(s) == IF s # <<>> /\ Head(s) = " " THEN LStrip(Tail(s)) ELSE s

RECURSIVE RStrip(_)
RStrip(s) ==
    IF s # <<>> /\ s[Len(s)] = " " THEN RStrip(SubSeq(s, 1, Len(s) - 1)) ELSE s

\* str.strip()
Strip(s) == RStrip(LStrip(s))

\* the sequences over S of length at most n
RECURSIVE SeqsUpTo(_, _)
SeqsUpTo(S, n) ==
    IF n = 0 THEN {<<>>}
    ELSE SeqsUpTo(S, n - 1)
         \cup {Append(x, c) : x \in {y \in SeqsUpTo(S, n - 1) : Len(y) = n - 1},
                              c \in S}

Min(a, b) == IF a <= b THEN a ELSE b
Max(a, b) == IF a >= b THEN a ELSE b

----------------------------------------------------------------------------
(* JSON values as json.loads yields them *)

\* a value of type t ("absent" for a missing key, "null", "num", "bool", "str",
\* "list", "dict" for a non-empty nested object); numbers in hundredths, so
\* True is 100
J(t, x) == [t |-> t, n |-> IF t \in {"num", "bool"} THEN x ELSE 0,
           s |-> IF t = "str" THEN x ELSE "", l |-> IF t = "list" THEN x ELSE <<>>]

\* a decoded JSON object: every key of AllKeys, absent where the key is missing
Obj(f) ==
    LET AllKeys ==
            {"toxicity", "self_harm", "harassment", "sexual", "violence",
             "overall_risk", "other_directed_violence", "imminence",
             "confidence", "label", "strengths", "emotions", "reactions",
             "values", "themes"}
    IN
          [k \in AllKeys |-> IF k \in DOMAIN f THEN f[k] ELSE J("absent", 0)]

\* float(payload.get(key, 0.0) or 0.0)
FloatOrZero(payload, key) ==
    LET \* Python truthiness of a value (bool(v))
        Truthy(v) ==
            CASE v.t = "num" -> v.n # 0
              [] v.t = "bool" -> v.n # 0
              [] v.t = "str" -> v.s # ""
              [] v.t = "list" -> v.l # <<>>
              [] v.t = "dict" -> TRUE
              [] OTHER -> FALSE
        \* float(v): numbers and bools convert, numeric strings parse ("0.9" is the
        \* numeric string of the inputs), the rest raises
        PyFloat(v) ==
            CASE v.t \in {"num", "bool"} -> [raised |-> FALSE, value |-> v.n]
              [] v.t = "str" /\ v.s = "0.9" -> [raised |-> FALSE, value |-> 90]
              [] OTHER -> [raised |-> TRUE, value |-> 0]
    IN
    IF Truthy(payload[key]) THEN PyFloat(payload[key])
    ELSE [raised |-> FALSE, value |-> 0]

\* `x in {"a", "b"}` raises TypeError for an unhashable x (list, dict)
Hashable(v) == v.t \notin {"list", "dict"}

----------------------------------------------------------------------------
(* Raw response text of a classifier call, as tokens *)

\* a token is prose, a lone "{" or "}", or a whole JSON object ("obj") with
\* its decoded payload
Token(k, payload) == [k |-> k, p |-> payload]

\* re.search(r"\{.*\}", text, DOTALL): from the first "{" to the LAST "}"
\* json.loads of that block succeeds only when the block is one object
extract_first_json_object(text) ==
    IF text = <<>> THEN [raised |-> TRUE, value |-> Obj(<<>>)]
    ELSE
      LET starts == {i \in 1..Len(text) : text[i].k \in {"{", "obj"}}
      IN IF starts = {} THEN [raised |-> TRUE, value |-> Obj(<<>>)]
         ELSE
           LET first == CHOOSE i \in starts : \A j \in starts : i <= j
               ends == {i \in first..Len(text) : text[i].k \in {"}", "obj"}}
           IN IF ends = {} THEN [raised |-> TRUE, value |-> Obj(<<>>)]
              ELSE
                LET last == CHOOSE i \in ends : \A j \in ends : i >= j
                IN IF first = last /\ text[first].k = "obj"
                      THEN [raised |-> FALSE, value |-> text[first].p]
                      ELSE [raised |-> TRUE, value |-> Obj(<<>>)]

----------------------------------------------------------------------------
(* Classifiers of LLMService.  Each takes the outcome of its provider call *)
(* o = [raises, text]; client.chat_completions is called BEFORE the try    *)
(* block of the classifier, so an exception of the call leaves the         *)
(* classifier, while an exception of the parsing yields the default.       *)

\* outcome of client.chat_completions as the pipeline sees it
Text(tokens) == [raises |-> FALSE, text |-> tokens]
CallFails == [raises |-> TRUE, text |-> <<>>]

Returns(v) == [raised |-> FALSE, value |-> v]
Raises(v) == [raised |-> TRUE, value |-> v]

RiskScoreKeys == {"toxicity", "self_harm", "harassment", "sexual", "violence"}
RiskLevels == {"low", "medium", "high"}
ViolenceClasses == {"none", "venting", "explicit"}
Imminences == {"low", "medium", "high"}
EmotionLabels == {"sad", "anxious", "angry", "neutral", "happy", "overwhelmed",
                  "lonely", "stressed", "other"}
PatternKeys == {"emotions", "reactions", "values", "themes"}

RiskDefault ==
    [toxicity |-> 0, self_harm |-> 0, harassment |-> 0, sexual |-> 0,
     violence |-> 0, overall_risk |-> "low"]

ViolenceDefault ==
    [other_directed_violence |-> "none", imminence |-> "low", confidence |-> 0]

EmotionDefault == [label |-> "other", confidence |-> 0]

NoPatterns == [k \in PatternKeys |-> <<>>]

\* _run_risk: the provider call, then the try block
run_risk(o) ==
    IF o.raises THEN Raises(RiskDefault)
    ELSE Returns(
      LET ex == extract_first_json_object(o.text)
          payload == ex.value
          level == payload["overall_risk"]
      IN IF ex.raised \/ ~Hashable(level) THEN RiskDefault
         ELSE IF \E k \in RiskScoreKeys : FloatOrZero(payload, k).raised
           THEN RiskDefault
           ELSE [toxicity |-> FloatOrZero(payload, "toxicity").value,
                 self_harm |-> FloatOrZero(payload, "self_harm").value,
                 harassment |-> FloatOrZero(payload, "harassment").value,
                 sexual |-> FloatOrZero(payload, "sexual").value,
                 violence |-> FloatOrZero(payload, "violence").value,
                 overall_risk |-> IF level.t = "str" /\ level.s \in RiskLevels
                                     THEN level.s ELSE "low"])

\* _run_violence_intent: the provider call, then the try block
run_violence_intent(o) ==
    IF o.raises THEN Raises(ViolenceDefault)
    ELSE Returns(
      LET ex == extract_first_json_object(o.text)
          payload == ex.value
          c == payload["other_directed_violence"]
          i == payload["imminence"]
          conf == FloatOrZero(payload, "confidence")
      IN IF ex.raised \/ conf.raised \/ ~Hashable(c) \/ ~Hashable(i)
           THEN ViolenceDefault
           ELSE [other_directed_violence |->
                     IF c.t = "str" /\ c.s \in ViolenceClasses THEN c.s ELSE "none",
                 imminence |->
                     IF i.t = "str" /\ i.s \in Imminences THEN i.s ELSE "low",
                 confidence |-> conf.value])

\* _run_emotion: the provider call, then the try block: the label is any string, the confidence any
\* int or float (a bool is an int)
run_emotion(o) ==
    IF o.raises THEN Raises(EmotionDefault)
    ELSE Returns(
      LET ex == extract_first_json_object(o.text)
          payload == ex.value
          label == payload["label"]
          conf == payload["confidence"]
      IN IF ex.raised \/ label.t # "str" \/ conf.t \notin {"num", "bool"}
           THEN EmotionDefault
           ELSE [label |-> label.s, confidence |-> conf.n])

\* [str(v).strip() for v in raw if str(v).strip()] over short phrases, " "
\* being the phrase that strips to nothing
RECURSIVE Cleaned(_)
Cleaned(xs) ==
    IF xs = <<>> THEN <<>>
    ELSE IF Head(xs) \in {" ", ""} THEN Cleaned(Tail(xs))
         ELSE <<Head(xs)>> \o Cleaned(Tail(xs))

\* no slice: the whole list
Take_whole(xs, n) == xs

\* xs[:max(n, 0)]
Take(xs, n) == SubSeq(xs, 1, Min(Len(xs), Max(n, 0)))

ANALYSIS_MIN_CONFIDENCE == 35
STRENGTHS_LIMIT == 2
PATTERN_LIMIT == 3

\* _run_user_strengths_analysis: the provider call, then the try block
run_user_strengths_analysis(o, limit) ==
    IF o.raises THEN Raises(<<>>)
    ELSE Returns(
      LET ex == extract_first_json_object(o.text)
          payload == ex.value
          conf == FloatOrZero(payload, "confidence")
          raw == payload["strengths"]
      IN IF ex.raised \/ conf.raised THEN <<>>
         ELSE IF conf.value < ANALYSIS_MIN_CONFIDENCE THEN <<>>
         ELSE IF raw.t # "list" THEN <<>>
         ELSE Take(Cleaned(raw.l), limit))

\* _run_user_pattern_analysis: the provider call, then the try block; a key left out of the result
\* is the empty sequence here
run_user_pattern_analysis(o) ==
    IF o.raises THEN Raises(NoPatterns)
    ELSE Returns(
      LET ex == extract_first_json_object(o.text)
          payload == ex.value
          conf == FloatOrZero(payload, "confidence")
      IN IF ex.raised \/ conf.raised THEN NoPatterns
         ELSE IF conf.value < ANALYSIS_MIN_CONFIDENCE THEN NoPatterns
         ELSE [k \in PatternKeys |->
                 IF payload[k].t = "list"
                   THEN Take(Cleaned(payload[k].l), PATTERN_LIMIT) ELSE <<>>])

DEESC_MIN_CONFIDENCE == 35
DEESC_MIN_VIOLENCE == 65
DEESC_MAX_SELF_HARM == 40

\* float(d.get(key, 0.0) or 0.0) on an assessment dict that may lack the key
ScoreOf(d, key) == IF key \in DOMAIN d THEN d[key] ELSE 0

should_run_violence_deescalation_strict(r, v) ==
    LET cls == IF "other_directed_violence" \in DOMAIN v
                 THEN v["other_directed_violence"] ELSE "none"
        conf == ScoreOf(v, "confidence")
        violence_score == ScoreOf(r, "violence")
        self_harm_score == ScoreOf(r, "self_harm")
    IN IF cls \in {"venting", "explicit"} /\ conf > DEESC_MIN_CONFIDENCE
         THEN TRUE
         ELSE violence_score >= DEESC_MIN_VIOLENCE
              /\ self_harm_score < DEESC_MAX_SELF_HARM

should_run_violence_deescalation_scores_only(r, v) ==
    ScoreOf(r, "violence") >= DEESC_MIN_VIOLENCE
    /\ ScoreOf(r, "self_harm") < DEESC_MAX_SELF_HARM

should_run_violence_deescalation(r, v) ==
    LET cls == IF "other_directed_violence" \in DOMAIN v
                 THEN v["other_directed_violence"] ELSE "none"
        conf == ScoreOf(v, "confidence")
        violence_score == ScoreOf(r, "violence")
        self_harm_score == ScoreOf(r, "self_harm")
    IN IF cls \in {"venting", "explicit"} /\ conf >= DEESC_MIN_CONFIDENCE
         THEN TRUE
         ELSE violence_score >= DEESC_MIN_VIOLENCE
              /\ self_harm_score < DEESC_MAX_SELF_HARM

----------------------------------------------------------------------------
(* History read from the conversation store *)

None == <<>>
Some(x) == <<x>>

Msg(role, content) == [role |-> role, content |-> content]

HISTORY_LIMIT == 10

RECURSIVE Normalized(_)
Normalized(msgs) ==
    IF msgs = <<>> THEN <<>>
    ELSE IF Head(msgs).role \in {"user", "assistant"}
            /\ Strip(Head(msgs).content) # <<>>
           THEN <<Head(msgs)>> \o Normalized(Tail(msgs))
           ELSE Normalized(Tail(msgs))

LastSlice_whole(msgs, limit) == msgs

\* raw_messages[-max(limit, 0):]  (a slice from -0 is the whole list)
LastSlice(msgs, limit) ==
    IF Max(limit, 0) = 0 \/ Max(limit, 0) >= Len(msgs) THEN msgs
    ELSE SubSeq(msgs, Len(msgs) - Max(limit, 0) + 1, Len(msgs))

get_thread_history(raw_messages, limit) == Normalized(LastSlice(raw_messages, limit))

\* re.sub(r"\s+", " ", content)
RECURSIVE Compact(_)
Compact(s) ==
    IF Len(s) < 2 THEN s
    ELSE IF s[1] = " " /\ s[2] = " " THEN Compact(Tail(s))
         ELSE <<Head(s)>> \o Compact(Tail(s))

RECURSIVE AssistantSnippets(_)
AssistantSnippets(msgs) ==
    IF msgs = <<>> THEN <<>>
    ELSE LET m == msgs[Len(msgs)]
             rest == AssistantSnippets(SubSeq(msgs, 1, Len(msgs) - 1))
         IN IF m.role = "assistant" /\ Strip(m.content) # <<>>
              THEN <<Compact(Strip(m.content))>> \o rest
              ELSE rest

RECENT_ASSISTANT_LIMIT == 3

\* newest first, at most `limit` snippets
extract_recent_assistant_messages(h, limit) ==
    LET all == AssistantSnippets(h)
    IN SubSeq(all, 1, Min(Len(all), limit))

----------------------------------------------------------------------------
(* Replies *)

FALLBACK_LISTENING == <<"I'm here and listening. [...] what feels most important right now?">>
FALLBACK_HERE == <<"I'm here with you. [...] one step at a time.">>

safe_fallback_response_unstripped(message) ==
    IF message # <<>> THEN FALLBACK_LISTENING ELSE FALLBACK_HERE

safe_fallback_response(message) ==
    IF Strip(message) # <<>> THEN FALLBACK_LISTENING ELSE FALLBACK_HERE

generate_mock_response_stripped(message) == <<"You said: ">> \o Strip(message)

generate_mock_response(message) == <<"You said: ">> \o message

\* lines 166-172 of generate_response, applied to the outcome of
\* _generate_llm_response
guard_llm_response_no_except(inner, message) ==
    IF inner.raised THEN Raises(<<>>)
    ELSE IF Strip(inner.value) # <<>> THEN Returns(Strip(inner.value))
    ELSE Returns(safe_fallback_response(message))

guard_llm_response(inner, message) ==
    IF inner.raised THEN Returns(safe_fallback_response(message))
    ELSE IF Strip(inner.value) # <<>> THEN Returns(Strip(inner.value))
    ELSE Returns(safe_fallback_response(message))

\* client.chat_completions(...) of a terminal strategy, inside its try block
run_generation(o, message, orFallback) ==
    IF o.raises THEN safe_fallback_response(message)
    ELSE IF Strip(o.text) = <<>> /\ orFallback THEN safe_fallback_response(message)
    ELSE Strip(o.text)

\* _rebuild_client: a client exists exactly when an API key is configured
rebuild_client(key) == IF key THEN "huggingface" ELSE "none"

----------------------------------------------------------------------------
(* One classifier applied to one response text (cl), and the de-escalation *)
(* decision applied to one pair of assessments                             *)

\* texts of at most MaxTokens tokens: a single token over the objects P, longer
\* texts over the objects Q
TextsOver(P, Q) ==
    LET TokensOver(S) ==
            {Token(k, Obj(<<>>)) : k \in {"prose", "{", "}"}}
            \cup {Token("obj", x) : x \in S}
    IN {<<>>} \cup {<<t>> : t \in TokensOver(P)}
       \cup UNION {[1..n -> TokensOver(Q)] : n \in 2..MaxTokens}

\* objects of the longer texts
FollowPayloads ==
    {Obj([overall_risk |-> J("str", "high"), violence |-> J("num", 90),
          other_directed_violence |-> J("str", "explicit"),
          confidence |-> J("num", 90), label |-> J("str", "sad")]),
     Obj(<<>>)}

ScoreGrid == {0, 34, 35, 39, 40, 64, 65, 100}

IdleCl == [kind |-> "idle", pc |-> "idle", text |-> <<>>, r |-> <<>>, v |-> <<>>,
           risk |-> RiskDefault, violence |-> ViolenceDefault,
           emotion |-> EmotionDefault, strengths |-> <<>>,
           patterns |-> NoPatterns, deescalate |-> FALSE]

ClassifierInput(kind, text) == [IdleCl EXCEPT !.kind = kind, !.pc = "ready", !.text = text]

ClassifyRisk ==
    /\ cl.kind = "risk" /\ cl.pc = "ready"
    /\ cl' = [cl EXCEPT !.pc = "done", !.risk = run_risk(Text(cl.text)).value]
    /\ UNCHANGED <<orchVars, rc, hs, sr, bt, rm, db>>

ClassifyViolence ==
    /\ cl.kind = "violence" /\ cl.pc = "ready"
    /\ cl' = [cl EXCEPT !.pc = "done",
                        !.violence = run_violence_intent(Text(cl.text)).value]
    /\ UNCHANGED <<orchVars, rc, hs, sr, bt, rm, db>>

ClassifyEmotion ==
    /\ cl.kind = "emotion" /\ cl.pc = "ready"
    /\ cl' = [cl EXCEPT !.pc = "done", !.emotion = run_emotion(Text(cl.text)).value]
    /\ UNCHANGED <<orchVars, rc, hs, sr, bt, rm, db>>

ClassifyStrengths ==
    /\ cl.kind = "strengths" /\ cl.pc = "ready"
    /\ cl' = [cl EXCEPT
                !.pc = "done",
                !.strengths = run_user_strengths_analysis(Text(cl.text),
                                                          STRENGTHS_LIMIT).value]
    /\ UNCHANGED <<orchVars, rc, hs, sr, bt, rm, db>>

ClassifyPatterns ==
    /\ cl.kind = "patterns" /\ cl.pc = "ready"
    /\ cl' = [cl EXCEPT !.pc = "done",
                        !.patterns = run_user_pattern_analysis(Text(cl.text)).value]
    /\ UNCHANGED <<orchVars, rc, hs, sr, bt, rm, db>>

DecideDeescalation ==
    /\ cl.kind = "deescalation" /\ cl.pc = "ready"
    /\ cl' = [cl EXCEPT !.pc = "done",
                        !.deescalate = should_run_violence_deescalation(cl.r, cl.v)]
    /\ UNCHANGED <<orchVars, rc, hs, sr, bt, rm, db>>

----------------------------------------------------------------------------
(* One chat_completions call of a provider client (rc): the retry loop of  *)
(* HuggingFaceInferenceClient._post_json (impl "huggingface") and of       *)
(* _post_json_with_retries (impl "openai" for OpenAICompatibleClient,      *)
(* "gemini" for GeminiClient), then the extraction of the content.         *)
(* Delays are whole seconds; a backoff factor is a non-negative number.    *)

\* a client that takes 401 for a transient error
HF_RETRYABLE_with_401 == {401, 429, 500, 502, 503, 504}

HF_RETRYABLE == {429, 500, 502, 503, 504}
GENERIC_RETRYABLE == {408, 429, 500, 502, 503, 504}
MAX_SLEEP_S == 10

RECURSIVE Pow(_, _)
Pow(b, e) == IF e <= 0 THEN 1 ELSE b * Pow(b, e - 1)

NoHint == -1

\* a decoded response body: choices[0].message.content, choices[0].text and
\* candidates[0].content.parts[*].text, each None when not locatable
Payload(message, text, parts) == [message |-> message, text |-> text, parts |-> parts]
NoPayload == Payload(None, None, None)

\* what one HTTP attempt can end in
AttemptOutcomes ==
    LET Payloads ==
            {NoPayload,
             Payload(Some(<<"a", " ">>), None, None),
             Payload(Some(<<>>), Some(<<"a">>), None),
             Payload(None, Some(<<" ", "a">>), None),
             Payload(None, None, Some(<<<<"a">>, <<" ">>>>)),
             Payload(None, None, Some(<<<<" ">>>>))}
    IN
    {[kind |-> "ok", status |-> 200, hint |-> NoHint, payload |-> x] : x \in Payloads}
    \cup {[kind |-> "http", status |-> st, hint |-> h, payload |-> NoPayload] :
             st \in {401, 408, 429, 503}, h \in {NoHint, 3, 20}}
    \cup {[kind |-> k, status |-> 0, hint |-> NoHint, payload |-> NoPayload] :
             k \in {"network", "undecodable"}}

IdleRc == [impl |-> "idle", pc |-> "idle", max_attempts |-> 0,
           backoff_factor |-> 0, attempt |-> 0, http_calls |-> 0,
           outcomes |-> <<>>, sleeps |-> <<>>, payload |-> NoPayload,
           result |-> <<>>, error |-> "none", twin |-> None,
           config |-> None, clients |-> <<>>]

\* the delay slept after failed attempt `attempt`; hint is the estimated_time
\* of the failed response, read by the Hugging Face client only
backoff_sleep_next_power(backoff_factor, attempt, hint, honourHint) ==
    LET backoff == Pow(backoff_factor, attempt)
        sleep_s == IF honourHint /\ hint # NoHint THEN Max(hint, backoff) ELSE backoff
    IN Min(sleep_s, MAX_SLEEP_S)

\* a sleep with no cap
backoff_sleep_uncapped(backoff_factor, attempt, hint, honourHint) ==
    LET backoff == Pow(backoff_factor, attempt - 1)
    IN IF honourHint /\ hint # NoHint THEN Max(hint, backoff) ELSE backoff

backoff_sleep(backoff_factor, attempt, hint, honourHint) ==
    LET backoff == Pow(backoff_factor, attempt - 1)
        sleep_s == IF honourHint /\ hint # NoHint THEN Max(hint, backoff) ELSE backoff
    IN Min(sleep_s, MAX_SLEEP_S)

\* a loop that tries again after every failure it may retry, whatever the
\* attempt count
RetryStep_no_budget(call, retryable, honourHint, o) ==
    LET tried == [call EXCEPT !.attempt = call.attempt + 1,
                              !.http_calls = call.http_calls + 1,
                              !.outcomes = Append(call.outcomes, o)]
    IN IF o.kind = "ok"
         THEN [tried EXCEPT !.pc = "extract", !.payload = o.payload]
       ELSE IF o.kind = "http" /\ o.status \notin retryable
         THEN [tried EXCEPT !.pc = "raised", !.error = "status"]
       ELSE tried

\* one iteration of the retry loop of the call: the HTTP attempt, which ends
\* in o, and what follows it
RetryStep(call, retryable, honourHint, o) ==
    IF call.attempt >= Max(call.max_attempts, 1)
      THEN [call EXCEPT !.pc = "raised", !.error = "after_retries"]
    ELSE
      LET attempt == call.attempt + 1
          tried == [call EXCEPT !.attempt = attempt,
                                !.http_calls = call.http_calls + 1,
                                !.outcomes = Append(call.outcomes, o)]
      IN CASE o.kind = "ok" ->
                [tried EXCEPT !.pc = "extract", !.payload = o.payload]
           [] o.kind = "http" ->
                IF o.status \in retryable /\ attempt < call.max_attempts
                  THEN [tried EXCEPT !.sleeps =
                          Append(call.sleeps,
                                 backoff_sleep(call.backoff_factor, attempt,
                                               o.hint, honourHint))]
                  ELSE [tried EXCEPT !.pc = "raised", !.error = "status"]
           [] OTHER ->
                IF attempt >= call.max_attempts
                  THEN [tried EXCEPT !.pc = "raised", !.error = "after_retries"]
                  ELSE [tried EXCEPT !.sleeps =
                          Append(call.sleeps,
                                 backoff_sleep(call.backoff_factor, attempt,
                                               NoHint, FALSE))]

\* HuggingFaceInferenceClient._post_json
post_json ==
    /\ rc.impl = "huggingface" /\ rc.pc = "post"
    /\ \E o \in AttemptOutcomes : rc' = RetryStep(rc, HF_RETRYABLE, TRUE, o)
    /\ UNCHANGED <<orchVars, cl, hs, sr, bt, rm, db>>

\* llm_clients._post_json_with_retries
post_json_with_retries ==
    /\ rc.impl \in {"openai", "gemini"} /\ rc.pc = "post"
    /\ \E o \in AttemptOutcomes : rc' = RetryStep(rc, GENERIC_RETRYABLE, FALSE, o)
    /\ UNCHANGED <<orchVars, cl, hs, sr, bt, rm, db>>

\* _post_json and _post_json_with_retries run side by side with the same
\* max_attempts and backoff_factor: attempt n of each ends in the same outcome,
\* which carries no wait hint; rc is the Hugging Face call and rc.twin the
\* other one
post_json_both ==
    /\ rc.twin # None
    /\ rc.pc = "post" \/ rc.twin[1].pc = "post"
    /\ \E o \in {x \in AttemptOutcomes : x.hint = NoHint} :
          rc' = [(IF rc.pc = "post" THEN RetryStep(rc, HF_RETRYABLE, TRUE, o)
                  ELSE rc)
                 EXCEPT !.twin =
                    Some(IF rc.twin[1].pc = "post"
                           THEN RetryStep(rc.twin[1], GENERIC_RETRYABLE, FALSE, o)
                           ELSE rc.twin[1])]
    /\ UNCHANGED <<orchVars, cl, hs, sr, bt, rm, db>>

----------------------------------------------------------------------------
(* build_chat_clients of core/llm_clients.py (rc.config, rc.clients).  A   *)
(* provider name is one of the spellings of ProviderInputs; "" stands for  *)
(* None and for a blank name.                                              *)

MaxFallbacks == 2     \* configured fallback providers

ProviderInputs == {"hf", "Hugging_Face ", "groq", " GROQ", "google", "gemini",
                   "openai", ""}

normalize_provider_name(provider) ==
    LET \* (provider or "").strip().lower()
        strip_lower(p) ==
            CASE p = "Hugging_Face " -> "hugging_face"
              [] p = " GROQ" -> "groq"
              [] OTHER -> p
        value == strip_lower(provider)
    IN IF value \in {"hf", "huggingface", "hugging_face"} THEN "huggingface"
       ELSE IF value \in {"groq"} THEN "groq"
       ELSE IF value \in {"gemini", "google"} THEN "gemini"
       ELSE "huggingface"

\* a list that keeps every occurrence
all_occurrences(ordered, seen) == ordered

\* lines 296-302: the items of `ordered` not seen before, in order
RECURSIVE first_occurrences(_, _)
first_occurrences(ordered, seen) ==
    IF ordered = <<>> THEN <<>>
    ELSE IF Head(ordered) \in seen THEN first_occurrences(Tail(ordered), seen)
    ELSE <<Head(ordered)>>
         \o first_occurrences(Tail(ordered), seen \cup {Head(ordered)})

\* lines 304-344: a client for each provider that has an API key
RECURSIVE clients_of(_, _)
clients_of(providers, keys) ==
    IF providers = <<>> THEN <<>>
    ELSE LET provider == Head(providers)
             rest == clients_of(Tail(providers), keys)
         IN IF provider \in keys
              THEN <<[provider_name |-> provider,
                      class |-> IF provider = "gemini" THEN "GeminiClient"
                                ELSE "OpenAICompatibleClient"]>> \o rest
              ELSE rest

build_chat_clients ==
    /\ rc.pc = "configure"
    /\ LET c == rc.config[1]
           ordered == <<normalize_provider_name(c.primary_provider)>>
                      \o [n \in DOMAIN c.fallback_providers |->
                             normalize_provider_name(c.fallback_providers[n])]
       IN rc' = [rc EXCEPT !.pc = "built",
                           !.clients = clients_of(first_occurrences(ordered, {}),
                                                  c.keys)]
    /\ UNCHANGED <<orchVars, cl, hs, sr, bt, rm, db>>

\* an empty text for a payload without content
extract_chat_content_or_empty(payload) ==
    IF payload.message # None THEN Returns(payload.message[1])
    ELSE IF payload.text # None THEN Returns(payload.text[1])
    ELSE Returns(<<>>)

\* _extract_chat_content and _extract_openai_style_content
extract_chat_content(payload) ==
    IF payload.message # None THEN Returns(payload.message[1])
    ELSE IF payload.text # None THEN Returns(payload.text[1])
    ELSE Raises(<<>>)

RECURSIVE Join(_)
Join(parts) == IF parts = <<>> THEN <<>> ELSE Head(parts) \o Join(Tail(parts))

extract_gemini_text(payload) ==
    IF payload.parts # None /\ Strip(Join(payload.parts[1])) # <<>>
      THEN Returns(Strip(Join(payload.parts[1])))
      ELSE Raises(<<>>)

\* the tail of chat_completions: extract the content of the response
ExtractContent ==
    /\ rc.pc = "extract"
    /\ LET ex == IF rc.impl = "gemini" THEN extract_gemini_text(rc.payload)
                 ELSE extract_chat_content(rc.payload)
       IN rc' = IF ex.raised
                  THEN [rc EXCEPT !.pc = "raised", !.error = "no_content"]
                  ELSE [rc EXCEPT !.pc = "returned", !.result = Strip(ex.value)]
    /\ UNCHANGED <<orchVars, cl, hs, sr, bt, rm, db>>

----------------------------------------------------------------------------
(* One _get_thread_history call on one stored thread (hs), and the slice   *)
(* of its result that a generation call sends to the provider.  Stored     *)
(* messages carry string contents.                                         *)

MaxStored == 12       \* messages in a stored thread

CONTEXT_LIMIT == 8

StoredMessages ==
    {Msg("user", <<"a">>), Msg("assistant", <<"a", " ">>), Msg("system", <<"a">>),
     Msg("user", <<" ">>), Msg("assistant", <<>>)}

\* the first and the last messages of a stored thread
Edges == {<<>>} \cup {<<m>> : m \in StoredMessages}
         \cup {<<m, n>> : m \in StoredMessages, n \in StoredMessages}

\* n turns in between, user and assistant alternating
RECURSIVE Turns(_)
Turns(n) ==
    IF n = 0 THEN <<>>
    ELSE Append(Turns(n - 1),
                Msg(IF n % 2 = 1 THEN "user" ELSE "assistant", <<"a", "a">>))

\* (thread or {}).get("messages", []): get_thread returns None for a thread
\* the store does not hold
thread_messages(thread) == IF thread = None THEN <<>> ELSE thread[1]

IdleHs == [pc |-> "idle", thread |-> None, history |-> <<>>, context |-> <<>>]

ReadHistory ==
    /\ hs.pc = "stored"
    /\ hs' = [hs EXCEPT !.pc = "read",
                        !.history = get_thread_history(thread_messages(hs.thread),
                                                       HISTORY_LIMIT)]
    /\ UNCHANGED <<orchVars, cl, rc, sr, bt, rm, db>>

BuildContext ==
    LET \* history[-8:] of the three generation calls
        generation_context(h) ==
            LastSlice(h, CONTEXT_LIMIT)
    IN
    /\ hs.pc = "read"
    /\ hs' = [hs EXCEPT !.pc = "sent", !.context = generation_context(hs.history)]
    /\ UNCHANGED <<orchVars, cl, rc, sr, bt, rm, db>>

----------------------------------------------------------------------------
(* One streamed reply (sr): the generators _stream_reply and               *)
(* _stream_temporary_reply of api/chat.py and the consumer that iterates   *)
(* them (StreamingResponse).  A generator is suspended at a yield until    *)
(* its consumer asks for the next item.                                    *)

MaxReply == 3         \* characters in a streamed reply

\* max(0.0, STREAM_CHAR_DELAY_MS / 1000.0), in milliseconds
delay_s(ms) == Max(0, ms)

\* the dict of one event, a key the event lacks being None
Event(type, thread_id, is_new_thread, temporary, delta) ==
    [type |-> type, thread_id |-> thread_id, is_new_thread |-> is_new_thread,
     temporary |-> temporary, delta |-> delta]

\* f"data: {json.dumps(payload)}\n\n"
sse_message(payload) == [prefix |-> "data: ", json |-> payload, end |-> "\n\n"]

\* `for ch in reply`: the character after the i characters already taken, None
\* when the loop is over
next_char_stripped(text, i) ==
    IF i < Len(Strip(text)) THEN Some(Strip(text)[i + 1]) ELSE None

next_char(text, i) == IF i < Len(text) THEN Some(text[i + 1]) ELSE None

\* the body of a generator runs only while its consumer asks for the next
\* item: StreamingResponse stops iterating once the client is gone
resumed_by_anyone(consumer) == TRUE

resumed_by(consumer) == consumer = "reading"

IdleSr == [pc |-> "idle", temporary |-> FALSE, thread_id |-> "", 
           is_new_thread |-> FALSE, reply |-> <<>>, delay_ms |-> 0, i |-> 0,
           events |-> <<>>, consumed |-> 0, consumer |-> "idle", slept_ms |-> 0]

\* the generator runs from its current yield to the next one (or to its end)
\* and the consumer receives what it yields
GeneratorStep ==
    LET meta_event(temporary, thread_id, is_new_thread) ==
            IF temporary THEN Event("meta", None, Some(FALSE), Some(TRUE), None)
            ELSE Event("meta", Some(thread_id), Some(is_new_thread), None, None)
        delta_event(ch) ==
            Event("delta", None, None, None, Some(ch))
        done_event(temporary, thread_id) ==
            IF temporary THEN Event("done", None, None, Some(TRUE), None)
            ELSE Event("done", Some(thread_id), None, None, None)
        yield(e, at) ==
            sr' = [sr EXCEPT !.pc = at,
                             !.events = Append(sr.events, sse_message(e)),
                             !.consumed = IF sr.consumer = "reading"
                                            THEN sr.consumed + 1 ELSE sr.consumed]
        loop(state) ==
            LET ch == next_char(sr.reply, state.i)
            IN IF ch # None
                 THEN sr' = [state EXCEPT !.pc = "delta", !.i = state.i + 1,
                                !.events = Append(sr.events,
                                                  sse_message(delta_event(ch[1]))),
                                !.consumed = IF sr.consumer = "reading"
                                               THEN sr.consumed + 1 ELSE sr.consumed]
                 ELSE sr' = [state EXCEPT !.pc = "done",
                                !.events = Append(sr.events,
                                    sse_message(done_event(sr.temporary, sr.thread_id))),
                                !.consumed = IF sr.consumer = "reading"
                                               THEN sr.consumed + 1 ELSE sr.consumed]
    IN CASE sr.pc = "created" ->
              yield(meta_event(sr.temporary, sr.thread_id, sr.is_new_thread), "meta")
         [] sr.pc = "meta" -> loop(sr)
         [] sr.pc = "delta" ->
              \* time.sleep(delay_s) after the yield, then the next iteration
              loop(IF delay_s(sr.delay_ms) > 0
                     THEN [sr EXCEPT !.slept_ms = sr.slept_ms + delay_s(sr.delay_ms)]
                     ELSE sr)
         [] sr.pc = "done" -> sr' = [sr EXCEPT !.pc = "exhausted"]
         [] OTHER -> FALSE

stream_reply ==
    /\ ~sr.temporary
    /\ sr.pc \in {"created", "meta", "delta", "done"}
    /\ resumed_by(sr.consumer)
    /\ GeneratorStep
    /\ UNCHANGED <<orchVars, cl, rc, hs, bt, rm, db>>

stream_temporary_reply ==
    /\ sr.temporary
    /\ sr.pc \in {"created", "meta", "delta", "done"}
    /\ resumed_by(sr.consumer)
    /\ GeneratorStep
    /\ UNCHANGED <<orchVars, cl, rc, hs, bt, rm, db>>

\* the client goes away: the consumer stops asking
Disconnect ==
    /\ sr.consumer = "reading"
    /\ sr.pc \in {"created", "meta", "delta", "done"}
    /\ sr' = [sr EXCEPT !.consumer = "disconnected"]
    /\ UNCHANGED <<orchVars, cl, rc, hs, bt, rm, db>>

\* the abandoned generator is closed at the yield it is suspended at
CloseGenerator ==
    /\ sr.consumer = "disconnected"
    /\ sr.pc \in {"created", "meta", "delta", "done"}
    /\ sr' = [sr EXCEPT !.pc = "closed"]
    /\ UNCHANGED <<orchVars, cl, rc, hs, bt, rm, db>>

----------------------------------------------------------------------------
(* One thread's title (bt): the chat requests of api/chat.py that reply on *)
(* the thread, the titling worker each of them starts, and the user's      *)
(* rename of api/threads.py, over the store backends of core/storage.py,   *)
(* core/firebase_storage.py and core/redis_cached_storage.py.  A store     *)
(* call is one step.                                                       *)

MaxRequests == 2      \* chat requests on the thread
MaxRenames == 1       \* renames by the user

Requests == 1..MaxRequests

USER_TITLE == <<"u">>
should_autotitle(title) == Strip(title) = <<>>

\* _maybe_autotitle_thread runs the titler as the target of a daemon thread:
\* worker.start() returns at once and an exception that ends the target ends
\* the worker only
maybe_autotitle_thread_raises_inline(uncaught) == uncaught

maybe_autotitle_thread_raises(uncaught) == FALSE

IdleBt == [backend |-> "memory", redis |-> FALSE, exists |-> FALSE,
           title |-> <<>>, cache |-> None, renames |-> 0,
           req |-> <<>>, task |-> <<>>]

\* a backend call that goes over the network can raise
MayRaise(backend) == IF backend = "firebase" THEN BOOLEAN ELSE {FALSE}

\* _maybe_autotitle_thread: worker.start()
maybe_autotitle_thread ==
    /\ \E i \in Requests :
          /\ bt.req[i].pc = "replied"
          /\ bt.task[i].pc = "unstarted"
          /\ bt' = [bt EXCEPT !.req[i].pc = "started", !.task[i].pc = "read"]
    /\ UNCHANGED <<orchVars, cl, rc, hs, sr, rm, db>>

\* the request returns the reply it generated
send_message ==
    /\ \E i \in Requests :
          /\ bt.req[i].pc = "started"
          /\ bt' = [bt EXCEPT !.req[i].pc = "returned",
                              !.req[i].response = bt.req[i].reply]
    /\ UNCHANGED <<orchVars, cl, rc, hs, sr, rm, db>>

\* lines 110-119 of _autotitle_thread_background; get_thread is that of the
\* base store or, with Redis, the cached thread when there is one
autotitle_get_thread ==
    LET \* the dict get_thread builds for an existing thread: the in-memory store
        \* returns the thread with its "title", the Firestore store returns a dict
        \* without a "title" key
        thread_dict(backend, title) ==
            [title |-> IF backend = "memory" THEN Some(title) ELSE None]
        \* str(thread.get("title") or "").strip() on `get_thread(...) or {}`
        current_title(thread) ==
            IF thread = None THEN <<>>
            ELSE IF thread[1].title = None THEN <<>>
            ELSE Strip(thread[1].title[1])
    IN
    /\ \E i \in Requests :
          /\ bt.task[i].pc = "read"
          /\ LET hit == bt.redis /\ bt.cache # None
             IN \E fails \in (IF hit THEN {FALSE} ELSE MayRaise(bt.backend)) :
                  IF fails
                    THEN bt' = [bt EXCEPT !.task[i].pc = "finished",
                                          !.task[i].end = "get_failed"]
                  ELSE
                    LET base == IF bt.exists
                                  THEN Some(thread_dict(bt.backend, bt.title))
                                  ELSE None
                        thread == IF hit THEN bt.cache ELSE base
                        seen == current_title(thread)
                    IN bt' = [bt EXCEPT
                                !.cache = IF bt.redis /\ ~hit THEN base ELSE bt.cache,
                                !.task[i].seen = seen,
                                !.task[i].pc = IF should_autotitle(seen)
                                                 THEN "generate" ELSE "finished",
                                !.task[i].end = IF should_autotitle(seen)
                                                  THEN "none" ELSE "has_title"]
    /\ UNCHANGED <<orchVars, cl, rc, hs, sr, rm, db>>

\* lines 128-134: the title generation call, outside any try block
autotitle_generate_title ==
    LET \* what llm_service.generate_thread_title can do: raise, or return a text
        TitleOutcomes ==
            {CallFails, Text(<<>>), Text(<<" ">>), Text(<<" ">> \o <<"t">>)}
    IN
    /\ \E i \in Requests :
          /\ bt.task[i].pc = "generate"
          /\ \E o \in TitleOutcomes :
               IF o.raises
                 THEN bt' = [bt EXCEPT
                               !.task[i].pc = "died", !.task[i].end = "raised",
                               !.req[i].raised =
                                   bt.req[i].raised
                                   \/ maybe_autotitle_thread_raises(TRUE)]
               ELSE IF Strip(o.text) = <<>>
                 THEN bt' = [bt EXCEPT !.task[i].pc = "finished",
                                       !.task[i].end = "empty_title"]
               ELSE bt' = [bt EXCEPT !.task[i].pc = "write",
                                     !.task[i].title = Strip(o.text)]
    /\ UNCHANGED <<orchVars, cl, rc, hs, sr, rm, db>>

\* store.rename_thread of the configured backend: the base store sets the
\* title of an existing thread, the Redis decorator then drops the cached
\* thread
store_rename_thread(state, title) ==
    IF state.exists
      THEN [state EXCEPT !.title = title, !.cache = None]
      ELSE [state EXCEPT !.cache = None]

\* lines 136-139
autotitle_rename_thread ==
    /\ \E i \in Requests :
          /\ bt.task[i].pc = "write"
          /\ \E fails \in MayRaise(bt.backend) :
               IF fails
                 THEN bt' = [bt EXCEPT !.task[i].pc = "finished",
                                       !.task[i].end = "rename_failed"]
                 ELSE bt' = [store_rename_thread(bt, bt.task[i].title) EXCEPT
                                !.task[i].pc = "finished",
                                !.task[i].end = IF bt.exists THEN "renamed"
                                                             ELSE "not_found"]
    /\ UNCHANGED <<orchVars, cl, rc, hs, sr, rm, db>>

\* PATCH /threads/{thread_id} with a non-blank title
rename_thread ==
    /\ bt.renames < MaxRenames
    /\ \E fails \in MayRaise(bt.backend) :
         IF fails THEN bt' = [bt EXCEPT !.renames = bt.renames + 1]
         ELSE bt' = [store_rename_thread(bt, Strip(USER_TITLE)) EXCEPT
                        !.renames = bt.renames + 1]
    /\ UNCHANGED <<orchVars, cl, rc, hs, sr, rm, db>>

----------------------------------------------------------------------------
(* The daily greeting (rm): get_ready_message of api/chat.py with its      *)
(* process-wide cache, and generate_daily_ready_message of core/llm.py.    *)
(* The endpoint is a plain function, so requests run on pool threads and   *)
(* interleave between its statements.  A greeting is a sequence of words,  *)
(* a provider response a sequence of lines of words.                       *)

MaxCallers == 2       \* concurrent get_ready_message requests
MaxDay == 2           \* UTC dates the clock goes through

Callers == 1..MaxCallers

CANNED == <<"Ready when you are.", "I'm here for you.",
            "Start when you feel ready.", "Take your time today.",
            "Begin wherever feels right.">>

READY_MAX_WORDS == 5

\* content.strip().splitlines()[0].strip(): the first line that has a word
RECURSIVE first_line(_)
first_line(content) ==
    IF content = <<>> THEN <<>>
    ELSE IF Head(content) # <<>> THEN Head(content)
    ELSE first_line(Tail(content))

\* generate_daily_ready_message; h is abs(hash(date_key)) % len(canned)
generate_daily_ready_message(mock, key, h, o) ==
    LET fallback == <<CANNED[h + 1]>>
    IN IF mock \/ ~key THEN fallback
       ELSE IF rebuild_client(key) = "none" THEN fallback
       ELSE IF o.raises THEN fallback
       ELSE IF first_line(o.text) = <<>> THEN fallback
       ELSE Take(first_line(o.text), READY_MAX_WORDS)

\* no greeting cached, no hash(date_key) taken yet, no request
IdleRm == [today |-> 0, cache |-> [d \in 1..MaxDay |-> None],
           hash |-> [k \in (1..MaxDay) \X {"anonymous", "u1"} |-> None],
           provider_calls |-> 0, caller |-> <<>>]

\* the fields of a chat request, which a greeting request does not touch
requestVars == <<enable_risk, enable_emotion, store, fallback_providers,
                 user_message, stub, pc, history, risk, violence_assessment,
                 emotion, strengths, user_patterns, strategy, calls,
                 store_reads, reply, raised>>

\* lines 361-364: the cache lookup
ready_lookup ==
    /\ \E i \in Callers :
          /\ rm.caller[i].pc = "new"
          /\ LET day == rm.today
                 cached == rm.cache[day]
             IN IF cached # None /\ cached[1] # <<>>
                  THEN rm' = [rm EXCEPT
                                !.caller[i].pc = "returned",
                                !.caller[i].day_key = day,
                                !.caller[i].response =
                                    Some([date |-> day, message |-> cached[1]])]
                  ELSE rm' = [rm EXCEPT !.caller[i].pc = "generate",
                                        !.caller[i].day_key = day]
    /\ UNCHANGED <<mock_mode, api_key, client, requestVars, cl, rc, hs, sr, bt, db>>

\* lines 366-367: the greeting is generated for f"{day_key}:{user_hint}"
ready_generate ==
    LET \* provider responses to the greeting prompt
        GreetingOutcomes ==
            {CallFails, Text(<<>>), Text(<<<<>>, <<"calm">>>>), Text(<<<<"be", "kind">>>>),
             Text(<<<<"w1", "w2", "w3", "w4", "w5", "w6">>, <<"x">>>>)}
    IN
    /\ \E i \in Callers :
          /\ rm.caller[i].pc = "generate"
          /\ LET k == <<rm.caller[i].day_key, rm.caller[i].user>>
                 live == ~mock_mode /\ api_key
             IN \E h \in (IF rm.hash[k] = None THEN 0..(Len(CANNED) - 1)
                          ELSE {rm.hash[k][1]}),
                   o \in (IF live THEN GreetingOutcomes ELSE {CallFails}) :
                  /\ rm' = [rm EXCEPT
                              !.hash[k] = Some(h),
                              !.provider_calls =
                                  IF live THEN rm.provider_calls + 1
                                          ELSE rm.provider_calls,
                              !.caller[i].pc = "clear",
                              !.caller[i].message =
                                  generate_daily_ready_message(mock_mode, api_key,
                                                               h, o)]
                  /\ client' = IF live /\ client = "none"
                                 THEN rebuild_client(api_key) ELSE client
    /\ UNCHANGED <<mock_mode, api_key, requestVars, cl, rc, hs, sr, bt, db>>

\* line 368: _ready_message_cache.clear()
ready_clear ==
    /\ \E i \in Callers :
          /\ rm.caller[i].pc = "clear"
          /\ rm' = [rm EXCEPT !.cache = [d \in 1..MaxDay |-> None],
                              !.caller[i].pc = "set"]
    /\ UNCHANGED <<orchVars, cl, rc, hs, sr, bt, db>>

\* lines 369-370: the cache write and the response
ready_set ==
    /\ \E i \in Callers :
          /\ rm.caller[i].pc = "set"
          /\ LET c == rm.caller[i]
             IN rm' = [rm EXCEPT
                         !.cache[c.day_key] = Some(c.message),
                         !.caller[i].pc = "returned",
                         !.caller[i].response =
                             Some([date |-> c.day_key, message |-> c.message])]
    /\ UNCHANGED <<orchVars, cl, rc, hs, sr, bt, db>>

\* midnight UTC
NextDay ==
    /\ rm.today >= 1 /\ rm.today < MaxDay
    /\ rm' = [rm EXCEPT !.today = rm.today + 1]
    /\ UNCHANGED <<orchVars, cl, rc, hs, sr, bt, db>>

----------------------------------------------------------------------------
(* The in-memory conversation store (db): InMemoryConversationStore of     *)
(* core/storage.py under _send_message_impl of api/chat.py.  The endpoints *)
(* are plain functions, so requests run on pool threads and interleave     *)
(* between the calls they make on the store; the store takes no lock.  A   *)
(* stored message carries the request that appended it (by), and db.added  *)
(* and db.last record what was asked of the store: the messages added to   *)
(* each thread and the thread of the last operation.                       *)

MaxSends == 2         \* concurrent _send_message_impl requests
MaxWrites == 2        \* replace, rename and delete operations

StoreUsers == {"u1", "u2"}
ThreadIds == {"t1", "t2"}

\* one dict of threads for all users, keyed by the thread id alone
StoreKey_by_thread(user_id, thread_id) == <<"u1", thread_id>>

\* self._threads[user_id][thread_id]
StoreKey(user_id, thread_id) == <<user_id, thread_id>>

\* get_thread: the thread data if found, None otherwise
get_thread(user_id, thread_id) == db.threads[StoreKey(user_id, thread_id)]

IdleDb == [threads |-> [k \in StoreUsers \X ThreadIds |-> None],
           added |-> [k \in StoreUsers \X ThreadIds |-> <<>>],
           last |-> <<"", "">>, writes |-> 0, req |-> <<>>,
           cache |-> None, ops |-> <<>>, redis_failed |-> FALSE,
           overlapped |-> FALSE]

\* the store after appending a message of request i to the thread, which
\* exists
AppendMessage(i, role, content) ==
    LET r == db.req[i]
        k == StoreKey(r.user_id, r.thread_id)
        th == db.threads[k][1]
    IN [db EXCEPT
          !.threads[k] =
              Some([th EXCEPT !.messages =
                      Append(@, [role |-> role, content |-> content, by |-> i])]),
          !.added[<<r.user_id, r.thread_id>>] =
              Append(@, [role |-> role, by |-> i]),
          !.last = <<r.user_id, r.thread_id>>]

\* _send_message_impl, lines 275-279: the reply is generated first
send_message_impl ==
    /\ \E i \in 1..MaxSends :
          /\ db.req[i].pc = "new" /\ db.req[i].path = "chat"
          /\ db' = [db EXCEPT !.req[i].pc = "add_user", !.req[i].reply = "ok"]
    /\ UNCHANGED <<orchVars, cl, rc, hs, sr, bt, rm>>

\* add_user_message as called by add_exchange; its KeyError becomes the 404
\* of _send_message_impl
add_user_message ==
    /\ \E i \in 1..MaxSends :
          /\ db.req[i].pc = "add_user"
          /\ IF get_thread(db.req[i].user_id, db.req[i].thread_id) = None
               THEN db' = [db EXCEPT
                             !.req[i].pc = "failed",
                             !.last = <<db.req[i].user_id, db.req[i].thread_id>>]
               ELSE db' = [AppendMessage(i, "user", db.req[i].message) EXCEPT
                             !.req[i].pc = "add_assistant"]
    /\ UNCHANGED <<orchVars, cl, rc, hs, sr, bt, rm>>

\* add_assistant_message as called by add_exchange, then lines 306-313 of
\* _send_message_impl
add_assistant_message ==
    /\ \E i \in 1..MaxSends :
          /\ db.req[i].pc = "add_assistant"
          /\ IF get_thread(db.req[i].user_id, db.req[i].thread_id) = None
               THEN db' = [db EXCEPT
                             !.req[i].pc = "failed",
                             !.last = <<db.req[i].user_id, db.req[i].thread_id>>]
               ELSE db' = [AppendMessage(i, "assistant", db.req[i].reply) EXCEPT
                             !.req[i].pc = "returned"]
    /\ UNCHANGED <<orchVars, cl, rc, hs, sr, bt, rm>>

\* the latest assistant message gets the new content; KeyError for a missing
\* thread, False when the thread has no assistant message
replace_last_assistant_message ==
    /\ db.writes < MaxWrites
    /\ \E u \in StoreUsers, t \in ThreadIds :
          LET k == StoreKey(u, t)
              th == db.threads[k]
              at == IF th = None THEN {}
                    ELSE {n \in DOMAIN th[1].messages :
                            th[1].messages[n].role = "assistant"}
          IN IF at = {}
               THEN db' = [db EXCEPT !.writes = @ + 1, !.last = <<u, t>>]
               ELSE LET idx == CHOOSE n \in at : \A m \in at : n >= m
                    IN db' = [db EXCEPT
                                !.threads[k] =
                                    Some([th[1] EXCEPT
                                            !.messages[idx].content = "new"]),
                                !.writes = @ + 1, !.last = <<u, t>>]
    /\ UNCHANGED <<orchVars, cl, rc, hs, sr, bt, rm>>

\* InMemoryConversationStore.rename_thread
rename_stored_thread ==
    /\ db.writes < MaxWrites
    /\ \E u \in StoreUsers, t \in ThreadIds :
          LET k == StoreKey(u, t)
          IN IF db.threads[k] = None
               THEN db' = [db EXCEPT !.writes = @ + 1, !.last = <<u, t>>]
               ELSE db' = [db EXCEPT
                             !.threads[k] =
                                 Some([db.threads[k][1] EXCEPT
                                         !.title = USER_TITLE]),
                             !.writes = @ + 1, !.last = <<u, t>>]
    /\ UNCHANGED <<orchVars, cl, rc, hs, sr, bt, rm>>

\* del self._threads[user_id][thread_id]
delete_thread ==
    /\ db.writes < MaxWrites
    /\ \E u \in StoreUsers, t \in ThreadIds :
          db' = [db EXCEPT !.threads[StoreKey(u, t)] = None,
                           !.writes = @ + 1, !.last = <<u, t>>]
    /\ UNCHANGED <<orchVars, cl, rc, hs, sr, bt, rm>>

----------------------------------------------------------------------------
(* RedisCachedConversationStore of core/redis_cached_storage.py over the   *)
(* in-memory store, for the one thread u1/t1: db.cache is the Redis entry  *)
(* of the thread payload and db.ops the wrapper operations, which run on   *)
(* pool threads and interleave between their Redis and base-store calls.   *)
(* Each Redis call can raise, and a get can return data that does not      *)
(* decode; db.redis_failed and db.overlapped record that this happened and *)
(* that an operation started while another was in progress.                *)

MaxOps == 2           \* wrapper operations

CachedThread == <<"u1", "t1">>

ReadOps == {"get_thread", "thread_exists"}

WriteOps == {"add_exchange", "rename_thread", "replace_last_assistant_message",
             "delete_thread"}

InProgress(op) == op.pc \notin {"new", "returned", "raised"}

\* whether operation i starts while another one is in progress
Overlaps(i) ==
    db.overlapped \/ \E j \in DOMAIN db.ops : j # i /\ InProgress(db.ops[j])

\* _get_json: None when the get raises, when there is no entry and when the
\* entry does not decode; json.loads of the entry otherwise
get_json(outcome, entry) ==
    IF outcome = "ok" /\ entry # None THEN Some(entry[1].json) ELSE None

\* a base-store method on the thread th (None when missing) for operation i:
\* the thread after it, what it returns and whether it raises KeyError
BaseWrite(method, i, th) ==
    LET out(after, value, err) == [thread |-> after, value |-> value, raised |-> err]
        appended(role) ==
            Some([th[1] EXCEPT !.messages =
                    Append(@, [role |-> role, content |-> "hi", by |-> i])])
        at == IF th = None THEN {}
              ELSE {n \in DOMAIN th[1].messages : th[1].messages[n].role = "assistant"}
    IN CASE method = "add_user_message" ->
              IF th = None THEN out(th, FALSE, TRUE) ELSE out(appended("user"), TRUE, FALSE)
         [] method = "add_assistant_message" ->
              IF th = None THEN out(th, FALSE, TRUE)
              ELSE out(appended("assistant"), TRUE, FALSE)
         [] method = "rename_thread" ->
              IF th = None THEN out(th, FALSE, FALSE)
              ELSE out(Some([th[1] EXCEPT !.title = USER_TITLE]), TRUE, FALSE)
         [] method = "replace_last_assistant_message" ->
              IF th = None THEN out(th, FALSE, TRUE)
              ELSE IF at = {} THEN out(th, FALSE, FALSE)
              ELSE out(Some([th[1] EXCEPT
                               !.messages[CHOOSE n \in at : \A m \in at : n >= m].content
                                   = "new"]), TRUE, FALSE)
         [] method = "delete_thread" ->
              IF th = None THEN out(th, FALSE, FALSE) ELSE out(None, TRUE, FALSE)

\* get_thread and thread_exists, lines 130-133 and 141-144: a cached dict is
\* the answer
cache_lookup ==
    /\ \E i \in 1..MaxOps, outcome \in {"ok", "raises", "undecodable"} :
          /\ db.ops[i].kind \in ReadOps /\ db.ops[i].pc = "new"
          /\ LET cached == get_json(outcome, db.cache)
                 d == [db EXCEPT !.overlapped = Overlaps(i),
                                 !.redis_failed = db.redis_failed \/ outcome # "ok"]
             IN IF cached # None
                  THEN db' = [d EXCEPT
                                !.ops[i].pc = "returned",
                                !.ops[i].result =
                                    IF db.ops[i].kind = "get_thread"
                                      THEN cached ELSE TRUE]
                  ELSE db' = [d EXCEPT !.ops[i].pc = "base"]
    /\ UNCHANGED <<orchVars, cl, rc, hs, sr, bt, rm>>

\* lines 135-136 and 145: the base store answers
cache_read_base ==
    /\ \E i \in 1..MaxOps :
          /\ db.ops[i].kind \in ReadOps /\ db.ops[i].pc = "base"
          /\ LET thread == get_thread("u1", "t1")
             IN IF db.ops[i].kind = "thread_exists"
                  THEN db' = [db EXCEPT !.ops[i].pc = "returned",
                                        !.ops[i].result = thread # None]
                ELSE IF thread = None
                  THEN db' = [db EXCEPT !.ops[i].pc = "returned",
                                        !.ops[i].result = None]
                ELSE db' = [db EXCEPT !.ops[i].pc = "fill",
                                      !.ops[i].seen = thread]
    /\ UNCHANGED <<orchVars, cl, rc, hs, sr, bt, rm>>

\* lines 137-138: _set_json of the thread read, then the return
cache_fill ==
    /\ \E i \in 1..MaxOps, outcome \in {"ok", "raises"} :
          /\ db.ops[i].pc = "fill"
          /\ db' = [db EXCEPT
                      !.cache = IF outcome = "ok"
                                  THEN Some([json |-> db.ops[i].seen[1]])
                                  ELSE db.cache,
                      !.redis_failed = db.redis_failed \/ outcome # "ok",
                      !.ops[i].pc = "returned",
                      !.ops[i].result = db.ops[i].seen]
    /\ UNCHANGED <<orchVars, cl, rc, hs, sr, bt, rm>>

\* the base-store call of a write operation; add_exchange of the in-memory
\* store is add_user_message then add_assistant_message, and a KeyError
\* leaves the wrapper before its invalidation
cache_write_base ==
    /\ \E i \in 1..MaxOps :
          /\ db.ops[i].kind \in WriteOps /\ db.ops[i].pc \in {"new", "base2"}
          /\ LET first == db.ops[i].pc = "new"
                 method == IF db.ops[i].kind # "add_exchange" THEN db.ops[i].kind
                           ELSE IF first THEN "add_user_message"
                           ELSE "add_assistant_message"
                 w == BaseWrite(method, i, get_thread("u1", "t1"))
                 d == [db EXCEPT
                         !.overlapped = IF first THEN Overlaps(i) ELSE db.overlapped,
                         !.ops[i].base_calls = IF first THEN 1 ELSE @,
                         !.threads[StoreKey("u1", "t1")] = w.thread]
             IN IF w.raised
                  THEN db' = [d EXCEPT !.ops[i].pc = "raised"]
                ELSE IF method = "add_user_message"
                  THEN db' = [d EXCEPT !.ops[i].pc = "base2"]
                ELSE db' = [d EXCEPT !.ops[i].pc = "invalidate",
                                     !.ops[i].result = w.value]
    /\ UNCHANGED <<orchVars, cl, rc, hs, sr, bt, rm>>

\* _invalidate_thread: _delete_key of the thread entry, then the return
invalidate_thread ==
    /\ \E i \in 1..MaxOps, outcome \in {"ok", "raises"} :
          /\ db.ops[i].pc = "invalidate"
          /\ db' = [db EXCEPT
                      !.cache = IF outcome = "ok" THEN None ELSE db.cache,
                      !.redis_failed = db.redis_failed \/ outcome # "ok",
                      !.ops[i].pc = "returned"]
    /\ UNCHANGED <<orchVars, cl, rc, hs, sr, bt, rm>>

\* a persisted stream is created for a reply that is yet to be saved
stream_chat_before_save ==
    /\ sr.pc = "idle"
    /\ \E i \in 1..MaxSends :
          /\ db.req[i].path = "stream" /\ db.req[i].pc = "add_user"
          /\ sr' = [IdleSr EXCEPT !.pc = "created",
                                  !.thread_id = db.req[i].thread_id,
                                  !.is_new_thread = (db.req[i].requested = None),
                                  !.reply = db.req[i].reply,
                                  !.consumer = "reading"]
    /\ UNCHANGED <<orchVars, cl, rc, hs, bt, rm, db>>

\* _build_stream_payload up to its first store call: the reply is generated
\* whole, for the thread asked for or for a thread with a fresh uuid4 id
build_stream_payload ==
    /\ \E i \in 1..MaxSends, reply_text \in {<<>>, <<"a">>, <<"a", " ">>} :
          /\ db.req[i].pc = "new" /\ db.req[i].path = "stream"
          /\ IF db.req[i].requested # None
               THEN db' = [db EXCEPT !.req[i].pc = "add_user",
                                     !.req[i].reply = reply_text]
               ELSE db' = [db EXCEPT !.req[i].pc = "create",
                                     !.req[i].thread_id = "t2",
                                     !.req[i].reply = reply_text]
    /\ UNCHANGED <<orchVars, cl, rc, hs, sr, bt, rm>>

\* create_thread_with_id as called by start_thread_with_exchange
create_thread_with_id ==
    /\ \E i \in 1..MaxSends :
          /\ db.req[i].pc = "create"
          /\ db' = [db EXCEPT
                      !.threads[StoreKey(db.req[i].user_id, db.req[i].thread_id)] =
                          Some([title |-> <<>>, messages |-> <<>>]),
                      !.last = <<db.req[i].user_id, db.req[i].thread_id>>,
                      !.req[i].pc = "add_user"]
    /\ UNCHANGED <<orchVars, cl, rc, hs, sr, bt, rm>>

\* stream_chat after _build_stream_payload has returned: the
\* StreamingResponse over _stream_reply
stream_chat ==
    /\ sr.pc = "idle"
    /\ \E i \in 1..MaxSends :
          /\ db.req[i].path = "stream" /\ db.req[i].pc = "returned"
          /\ sr' = [IdleSr EXCEPT !.pc = "created",
                                  !.thread_id = db.req[i].thread_id,
                                  !.is_new_thread = (db.req[i].requested = None),
                                  !.reply = db.req[i].reply,
                                  !.consumer = "reading"]
    /\ UNCHANGED <<orchVars, cl, rc, hs, bt, rm, db>>

----------------------------------------------------------------------------
(* Inputs of a request: configuration, stored thread, user message and the *)
(* behaviour of the provider for each call of the request                  *)

\* a response text that is one JSON object with the fields f
ObjText(f) == Text(<<Token("obj", Obj(f))>>)

Stubs ==
    [risk :
        {CallFails, Text(<<Token("prose", Obj(<<>>))>>)}
        \cup {ObjText([overall_risk |-> o, self_harm |-> J("num", c[1]),
                       violence |-> J("num", c[2]), toxicity |-> c[3]]) :
                o \in {J("str", "low"), J("str", "high"), J("absent", 0)},
                c \in {<<10, 0, J("absent", 0)>>, <<10, 90, J("num", 90)>>,
                       <<40, 65, J("num", 20)>>}},
     violence :
        {CallFails, Text(<<>>)}
        \cup {ObjText([other_directed_violence |-> J("str", c[1]),
                       imminence |-> J("str", "low"),
                       confidence |-> J("num", c[2])]) :
                c \in {<<"none", 90>>, <<"explicit", 90>>, <<"venting", 34>>}},
     emotion :
        {CallFails, Text(<<>>)}
        \cup {ObjText([label |-> J("str", "sad"), confidence |-> J("num", c)]) :
                c \in {40, 39}},
     strengths :
        {CallFails, ObjText([strengths |-> J("list", <<"grit">>),
                             confidence |-> J("num", 90)])},
     patterns :
        {CallFails, ObjText([themes |-> J("list", <<"work">>),
                             confidence |-> J("num", 90)])},
     generation : {CallFails, Text(<<>>), Text(<<"a">>)}]

\* the provider is not reached: its behaviour is immaterial
IdleStub == [risk |-> CallFails, violence |-> CallFails, emotion |-> CallFails,
             strengths |-> CallFails, patterns |-> CallFails,
             generation |-> CallFails]

Init ==
    /\ mock_mode \in BOOLEAN
    /\ enable_risk \in BOOLEAN
    /\ enable_emotion \in BOOLEAN
    /\ api_key \in BOOLEAN
    /\ client = rebuild_client(api_key)
    /\ store \in {[kind |-> "none", thread |-> <<>>],
                  [kind |-> "failing", thread |-> <<>>]}
                 \cup {[kind |-> "ok", thread |-> th] :
                          th \in {<<>>, <<Msg("user", <<"a">>),
                                          Msg("assistant", <<"a">>)>>}}
    /\ fallback_providers \in {<<>>, <<"groq">>}
    /\ user_message \in {<<>>, <<" ">>, <<"a">>}
    /\ stub \in IF ~mock_mode /\ api_key /\ store.kind = "ok"
                  THEN Stubs ELSE {IdleStub}
    /\ pc = "start"
    /\ history = <<>>
    /\ risk = None
    /\ violence_assessment = None
    /\ emotion = None
    /\ strengths = <<>>
    /\ user_patterns = NoPatterns
    /\ strategy = "none"
    /\ calls = <<>>
    /\ store_reads = 0
    /\ reply = <<>>
    /\ raised = FALSE
    /\ cl = IdleCl /\ rc = IdleRc /\ hs = IdleHs /\ sr = IdleSr
    /\ bt = IdleBt /\ rm = IdleRm
    /\ db = IdleDb

----------------------------------------------------------------------------
(* generate_response, one provider call per step *)

Call(kind, prompt, lines) ==
    [kind |-> kind, provider |-> client, prompt |-> prompt, lines |-> lines]

\* a request that starts over instead of returning
Finish_and_restart(inner) ==
    LET out == guard_llm_response(inner, user_message)
    IN /\ reply' = out.value
       /\ raised' = out.raised
       /\ pc' = "start"

\* generate_response returns (or raises) with the outcome of
\* _generate_llm_response
Finish(inner) ==
    LET out == guard_llm_response(inner, user_message)
    IN /\ reply' = out.value
       /\ raised' = out.raised
       /\ pc' = "done"

\* lines 253-257: the emotion stage or straight into _run_response
EnterEmotionOrStandard ==
    IF enable_emotion
      THEN pc' = "emotion" /\ UNCHANGED strategy
      ELSE pc' = "std_strengths" /\ strategy' = "standard"

\* a risk stage that runs only for a thread with history
should_run_risk_with_history == history # <<>>

\* _should_run_risk: the model-based risk analysis always runs when enabled
should_run_risk == TRUE

Begin ==
    /\ pc = "start"
    /\ UNCHANGED <<mock_mode, enable_risk, enable_emotion, api_key, store,
                   fallback_providers, user_message, stub, risk,
                   violence_assessment, emotion, strengths, user_patterns,
                   calls, cl, rc, hs, sr, bt, rm, db>>
    /\ IF mock_mode
         THEN /\ reply' = generate_mock_response(user_message)
              /\ raised' = FALSE
              /\ pc' = "done"
              /\ UNCHANGED <<client, history, strategy, store_reads>>
       ELSE IF store.kind = "none" \/ ~api_key
         THEN /\ Finish(Returns(safe_fallback_response(user_message)))
              /\ UNCHANGED <<client, history, strategy, store_reads>>
       ELSE
         /\ client' = IF client = "none" THEN rebuild_client(api_key) ELSE client
         /\ IF client' = "none"
              THEN /\ Finish(Returns(safe_fallback_response(user_message)))
                   /\ UNCHANGED <<history, strategy, store_reads>>
            ELSE
              \* _get_thread_history: store.get_thread is called outside any
              \* try block of _generate_llm_response
              /\ store_reads' = store_reads + 1
              /\ IF store.kind = "failing"
                   THEN /\ Finish(Raises(<<>>))
                        /\ UNCHANGED <<history, strategy>>
                 ELSE
                   /\ history' = get_thread_history(store.thread, HISTORY_LIMIT)
                   /\ UNCHANGED <<reply, raised>>
                   /\ IF enable_risk /\ should_run_risk
                        THEN pc' = "risk" /\ UNCHANGED strategy
                        ELSE EnterEmotionOrStandard

\* line 230: the crisis gate
is_high_risk_by_score(r) == r.self_harm >= DEESC_MAX_SELF_HARM

is_high_risk(r) == r.overall_risk = "high"

RiskCheck ==
    /\ pc = "risk"
    /\ LET r == run_risk(stub.risk)
       IN /\ calls' = Append(calls, Call("risk", "risk", {}))
          /\ IF r.raised
               THEN Finish(Raises(<<>>)) /\ UNCHANGED <<risk, strategy>>
             ELSE /\ risk' = Some(r.value)
                  /\ UNCHANGED <<reply, raised>>
                  /\ IF is_high_risk(r.value)
                       THEN pc' = "crisis_strengths" /\ strategy' = "crisis"
                       ELSE pc' = "violence" /\ UNCHANGED strategy
    /\ UNCHANGED <<mock_mode, enable_risk, enable_emotion, api_key, client,
                   store, store_reads, fallback_providers, user_message, stub,
                   history,
                   violence_assessment, emotion, strengths, user_patterns,
                   cl, rc, hs, sr, bt, rm, db>>

ViolenceCheck ==
    /\ pc = "violence"
    /\ LET v == run_violence_intent(stub.violence)
       IN /\ calls' = Append(calls, Call("violence", "violence", {}))
          /\ IF v.raised
               THEN Finish(Raises(<<>>))
                    /\ UNCHANGED <<violence_assessment, strategy>>
             ELSE /\ violence_assessment' = Some(v.value)
                  /\ UNCHANGED <<reply, raised>>
                  /\ IF should_run_violence_deescalation(risk[1], v.value)
                       THEN pc' = "deesc_patterns" /\ strategy' = "deesc"
                       ELSE EnterEmotionOrStandard
    /\ UNCHANGED <<mock_mode, enable_risk, enable_emotion, api_key, client,
                   store, store_reads, fallback_providers, user_message, stub,
                   history,
                   risk, emotion, strengths, user_patterns,
                   cl, rc, hs, sr, bt, rm, db>>

EmotionCheck ==
    /\ pc = "emotion"
    /\ LET e == run_emotion(stub.emotion)
       IN /\ calls' = Append(calls, Call("emotion", "emotion", {}))
          /\ IF e.raised
               THEN Finish(Raises(<<>>)) /\ UNCHANGED <<emotion, strategy>>
             ELSE /\ emotion' = Some(e.value)
                  /\ UNCHANGED <<reply, raised>>
                  /\ pc' = "std_strengths"
                  /\ strategy' = "standard"
    /\ UNCHANGED <<mock_mode, enable_risk, enable_emotion, api_key, client,
                   store, store_reads, fallback_providers, user_message, stub,
                   history,
                   risk, violence_assessment, strengths, user_patterns,
                   cl, rc, hs, sr, bt, rm, db>>

\* _run_user_strengths_analysis as called by _run_response and
\* _run_crisis_response
StrengthsAnalysis ==
    /\ pc \in {"std_strengths", "crisis_strengths"}
    /\ LET a == run_user_strengths_analysis(stub.strengths, STRENGTHS_LIMIT)
       IN /\ calls' = Append(calls, Call("strengths", "strengths", {}))
          /\ IF a.raised
               THEN Finish(Raises(<<>>)) /\ UNCHANGED strengths
             ELSE /\ strengths' = a.value
                  /\ UNCHANGED <<reply, raised>>
                  /\ pc' = IF pc = "std_strengths" THEN "std_patterns"
                                                   ELSE "crisis_generation"
    /\ UNCHANGED <<mock_mode, enable_risk, enable_emotion, api_key, client,
                   store, store_reads, fallback_providers, user_message, stub,
                   history,
                   risk, violence_assessment, emotion, user_patterns,
                   strategy, cl, rc, hs, sr, bt, rm, db>>

\* _run_user_pattern_analysis as called by _run_response and
\* _run_violence_deescalation_response
PatternAnalysis ==
    /\ pc \in {"std_patterns", "deesc_patterns"}
    /\ LET a == run_user_pattern_analysis(stub.patterns)
       IN /\ calls' = Append(calls, Call("patterns", "patterns", {}))
          /\ IF a.raised
               THEN Finish(Raises(<<>>)) /\ UNCHANGED user_patterns
             ELSE /\ user_patterns' = a.value
                  /\ UNCHANGED <<reply, raised>>
                  /\ pc' = IF pc = "std_patterns" THEN "std_generation"
                                                  ELSE "deesc_generation"
    /\ UNCHANGED <<mock_mode, enable_risk, enable_emotion, api_key, client,
                   store, store_reads, fallback_providers, user_message, stub,
                   history,
                   risk, violence_assessment, emotion, strengths,
                   strategy, cl, rc, hs, sr, bt, rm, db>>

EMOTION_MIN_CONFIDENCE == 40

\* an emotion line for every assessment that has some confidence
LineInjected_any_confidence(line, s) ==
    CASE line = "emotion" ->
            s = "standard" /\ emotion # None /\ emotion[1].confidence > 0
      [] line = "strengths" -> s \in {"standard", "crisis"} /\ strengths # <<>>
      [] line = "patterns" ->
            /\ s \in {"standard", "deesc"}
            /\ \E k \in PatternKeys : user_patterns[k] # <<>>
      [] line = "anti_repeat" ->
            extract_recent_assistant_messages(history, RECENT_ASSISTANT_LIMIT) # <<>>
      [] OTHER -> FALSE

\* the context lines a strategy puts into its system prompt
LineInjected(line, s) ==
    CASE line = "emotion" ->
            /\ s = "standard"
            /\ emotion # None
            /\ emotion[1].confidence >= EMOTION_MIN_CONFIDENCE
      [] line = "strengths" -> s \in {"standard", "crisis"} /\ strengths # <<>>
      [] line = "patterns" ->
            /\ s \in {"standard", "deesc"}
            /\ \E k \in PatternKeys : user_patterns[k] # <<>>
      [] line = "anti_repeat" ->
            extract_recent_assistant_messages(history, RECENT_ASSISTANT_LIMIT) # <<>>
      [] OTHER -> FALSE

\* the generation call of _run_response, _run_crisis_response or
\* _run_violence_deescalation_response, and the return to generate_response
Generate ==
    LET PromptLines(s) ==
            {line \in {"emotion", "strengths", "patterns", "anti_repeat"} :
                LineInjected(line, s)}
    IN
    /\ pc \in {"std_generation", "crisis_generation", "deesc_generation"}
    /\ calls' = Append(calls, Call("generation", strategy, PromptLines(strategy)))
    /\ LET text == run_generation(stub.generation, user_message,
                                  strategy # "standard")
       IN Finish(Returns(IF text = <<>>
                           THEN safe_fallback_response(user_message)
                           ELSE text))
    /\ UNCHANGED <<mock_mode, enable_risk, enable_emotion, api_key, client,
                   store, store_reads, fallback_providers, user_message, stub,
                   history,
                   risk, violence_assessment, emotion, strengths,
                   user_patterns, strategy, cl, rc, hs, sr, bt, rm, db>>

Next == Begin \/ RiskCheck \/ ViolenceCheck \/ EmotionCheck
        \/ StrengthsAnalysis \/ PatternAnalysis \/ Generate

Spec == Init /\ [][Next]_vars

\* a request with the message "a" and no fallback provider configured
InitFair == Init /\ user_message = <<"a">> /\ fallback_providers = <<>>

\* the request's thread is scheduled: a statement that can run does run
FairSpec == InitFair /\ [][Next]_vars /\ WF_vars(Next)

----------------------------------------------------------------------------
(* The service at rest, for the specifications of its parts *)

NoRequest ==
    /\ enable_risk = TRUE /\ enable_emotion = TRUE
    /\ store = [kind |-> "none", thread |-> <<>>]
    /\ fallback_providers = <<>>
    /\ user_message = <<>> /\ stub = IdleStub /\ pc = "idle"
    /\ history = <<>> /\ risk = None /\ violence_assessment = None
    /\ emotion = None /\ strengths = <<>> /\ user_patterns = NoPatterns
    /\ strategy = "none" /\ calls = <<>> /\ store_reads = 0
    /\ reply = <<>> /\ raised = FALSE

IdleService ==
    /\ mock_mode = TRUE /\ api_key = FALSE /\ client = "none"
    /\ NoRequest

InitClassify ==
    LET RiskPayloads ==
            {Obj([overall_risk |-> o, self_harm |-> sh, violence |-> v, toxicity |-> tx,
                  harassment |-> h, sexual |-> sx]) :
                o \in {J("absent", 0), J("null", 0), J("str", "low"), J("str", "medium"), J("str", "high"),
                       J("str", "extreme"), J("num", 100), J("list", <<"high">>)},
                sh \in {J("absent", 0), J("num", 10), J("str", "abc")},
                v \in {J("absent", 0), J("null", 0), J("num", 90), J("num", 150), J("str", "0.9")},
                tx \in {J("absent", 0), J("num", 50), J("bool", 100), J("list", <<"x">>)},
                h \in {J("absent", 0), J("num", 50)},
                sx \in {J("absent", 0), J("str", "")}}
        ViolencePayloads ==
            {Obj([other_directed_violence |-> c, imminence |-> i, confidence |-> cf]) :
                c \in {J("absent", 0), J("str", "none"), J("str", "venting"), J("str", "explicit"),
                       J("str", "murder"), J("num", 100), J("list", <<"explicit">>)},
                i \in {J("absent", 0), J("str", "low"), J("str", "high"), J("str", "soon"), J("dict", 0)},
                cf \in {J("absent", 0), J("null", 0), J("num", 0), J("num", 34), J("num", 35), J("num", 90),
                        J("num", 150), J("str", "abc"), J("str", "0.9")}}
        EmotionPayloads ==
            {Obj([label |-> lb, confidence |-> cf]) :
                lb \in {J("absent", 0), J("null", 0), J("str", "sad"), J("str", "other"), J("str", "furious"),
                        J("num", 100)},
                cf \in {J("absent", 0), J("null", 0), J("num", 0), J("num", 39), J("num", 40), J("num", 90),
                        J("str", "0.9"), J("bool", 100)}}
        \* responses to the strengths and the pattern prompts: lists of up to
        \* MaxPhrases phrases, " " being a phrase that strips to nothing
        AnalysisPayloads ==
            {Obj([strengths |-> x, emotions |-> x, themes |-> y, confidence |-> cf]) :
                x \in {J("absent", 0), J("str", "grit")}
                      \cup {J("list", l) : l \in SeqsUpTo({"a", " "}, MaxPhrases)},
                y \in {J("absent", 0), J("list", <<"work">>)},
                cf \in {J("absent", 0), J("null", 0), J("num", 0), J("num", 34),
                        J("num", 35), J("num", 90), J("str", "0.9"), J("str", "abc")}}
        \* assessment dicts handed to _should_run_violence_deescalation, keys optional
        RiskDicts ==
            UNION {[D -> ScoreGrid] : D \in SUBSET {"violence", "self_harm"}}
        ViolenceDicts ==
            {<<>>}
            \cup {[other_directed_violence |-> c] : c \in ViolenceClasses}
            \cup {[confidence |-> cf] : cf \in ScoreGrid}
            \cup {[other_directed_violence |-> c, confidence |-> cf] :
                    c \in ViolenceClasses, cf \in ScoreGrid}
    IN
    /\ IdleService
    /\ cl \in {ClassifierInput("risk", x) : x \in TextsOver(RiskPayloads, FollowPayloads)}
          \cup {ClassifierInput("violence", x) :
                   x \in TextsOver(ViolencePayloads, FollowPayloads)}
          \cup {ClassifierInput("emotion", x) :
                   x \in TextsOver(EmotionPayloads, FollowPayloads)}
          \cup {ClassifierInput(k, x) :
                   k \in {"strengths", "patterns"},
                   x \in TextsOver(AnalysisPayloads, FollowPayloads)}
          \cup {[IdleCl EXCEPT !.kind = "deescalation", !.pc = "ready",
                               !.r = r, !.v = v] :
                   r \in RiskDicts, v \in ViolenceDicts}
    /\ rc = IdleRc /\ hs = IdleHs /\ sr = IdleSr /\ bt = IdleBt /\ rm = IdleRm
    /\ db = IdleDb

SpecClassify == InitClassify /\ [][ClassifyRisk \/ ClassifyViolence
                                   \/ ClassifyEmotion \/ ClassifyStrengths
                                   \/ ClassifyPatterns \/ DecideDeescalation]_vars

InitRetry ==
    /\ IdleService
    /\ rc \in {[IdleRc EXCEPT !.impl = i, !.pc = "post", !.max_attempts = m,
                               !.backoff_factor = b] :
                  i \in {"huggingface", "openai", "gemini"},
                  m \in -1..MaxAttemptsBound, b \in {0, 1, 2, 11}}
    /\ cl = IdleCl /\ hs = IdleHs /\ sr = IdleSr /\ bt = IdleBt /\ rm = IdleRm
    /\ db = IdleDb

SpecRetry == InitRetry /\ [][post_json \/ post_json_with_retries
                             \/ ExtractContent]_vars

\* the two retry loops configured alike, before their first attempt
InitAgree ==
    /\ IdleService
    /\ rc \in {[IdleRc EXCEPT
                   !.impl = "huggingface", !.pc = "post", !.max_attempts = m,
                   !.backoff_factor = b,
                   !.twin = Some([IdleRc EXCEPT
                                    !.impl = "openai", !.pc = "post",
                                    !.max_attempts = m, !.backoff_factor = b])] :
                  m \in -1..MaxAttemptsBound, b \in {0, 1, 2, 11}}
    /\ cl = IdleCl /\ hs = IdleHs /\ sr = IdleSr /\ bt = IdleBt /\ rm = IdleRm
    /\ db = IdleDb

SpecAgree == InitAgree /\ [][post_json_both]_vars

\* a primary provider, fallbacks and the set of providers with an API key
InitClients ==
    /\ IdleService
    /\ rc \in {[IdleRc EXCEPT
                   !.pc = "configure",
                   !.config = Some([primary_provider |-> p,
                                    fallback_providers |-> f, keys |-> k])] :
                  p \in ProviderInputs, f \in SeqsUpTo(ProviderInputs, MaxFallbacks),
                  k \in SUBSET {"huggingface", "groq", "gemini"}}
    /\ cl = IdleCl /\ hs = IdleHs /\ sr = IdleSr /\ bt = IdleBt /\ rm = IdleRm
    /\ db = IdleDb

SpecClients == InitClients /\ [][build_chat_clients]_vars

InitHistory ==
    LET StoredThreads ==
            {pre \o Turns(n) \o suf : pre \in Edges, suf \in Edges, n \in 0..(MaxStored - 4)}
    IN
    /\ IdleService
    /\ hs \in {[IdleHs EXCEPT !.pc = "stored", !.thread = th] :
                  th \in {None} \cup {Some(x) : x \in StoredThreads}}
    /\ cl = IdleCl /\ rc = IdleRc /\ sr = IdleSr /\ bt = IdleBt /\ rm = IdleRm
    /\ db = IdleDb

SpecHistory == InitHistory /\ [][ReadHistory \/ BuildContext]_vars

\* a generator just created; the delay is STREAM_CHAR_DELAY_MS as the
\* environment may set it
InitStream ==
    /\ IdleService
    /\ sr \in {[IdleSr EXCEPT !.pc = "created", !.temporary = tmp,
                               !.thread_id = IF tmp THEN "" ELSE "t1",
                               !.is_new_thread = new, !.reply = r, !.delay_ms = d,
                               !.consumer = "reading"] :
                  tmp \in BOOLEAN, new \in BOOLEAN,
                  r \in SeqsUpTo({" ", "a"}, MaxReply), d \in {-5, 0, 20}}
    /\ cl = IdleCl /\ rc = IdleRc /\ hs = IdleHs /\ bt = IdleBt /\ rm = IdleRm
    /\ db = IdleDb

SpecStream == InitStream /\ [][stream_reply \/ stream_temporary_reply
                               \/ Disconnect \/ CloseGenerator]_vars

\* a thread, blank or with a title of the user's, on one of the backends;
\* each request has generated its reply and persisted the exchange
InitTitle ==
    /\ IdleService
    /\ bt \in {[IdleBt EXCEPT
                   !.backend = b, !.redis = r, !.exists = TRUE, !.title = t,
                   !.req = [i \in Requests |->
                              [pc |-> "replied", reply |-> [k \in 1..i |-> "a"],
                               response |-> <<>>, raised |-> FALSE]],
                   !.task = [i \in Requests |->
                               [pc |-> "unstarted", seen |-> <<>>, title |-> <<>>,
                                end |-> "none"]]] :
                b \in {"memory", "firebase"}, r \in BOOLEAN,
                t \in {<<>>, USER_TITLE}}
    /\ cl = IdleCl /\ rc = IdleRc /\ hs = IdleHs /\ sr = IdleSr /\ rm = IdleRm
    /\ db = IdleDb

SpecTitle == InitTitle /\ [][maybe_autotitle_thread \/ send_message
                             \/ autotitle_get_thread
                             \/ autotitle_generate_title
                             \/ autotitle_rename_thread \/ rename_thread]_vars

\* every thread exists and is empty (create_thread); each request is a
\* message for one of them, the first request's thread being u1's t1 (users
\* and thread ids are interchangeable)
InitStore ==
    /\ IdleService
    /\ db \in {[IdleDb EXCEPT
                   !.threads = [k \in StoreUsers \X ThreadIds |->
                                   Some([title |-> <<>>, messages |-> <<>>])],
                   !.req = r] :
                r \in {x \in [1..MaxSends ->
                                {[pc |-> "new", path |-> "chat", user_id |-> u,
                                  thread_id |-> t, message |-> "hi",
                                  reply |-> ""] :
                                    u \in StoreUsers, t \in ThreadIds}] :
                          x[1].user_id = "u1" /\ x[1].thread_id = "t1"}}
    /\ cl = IdleCl /\ rc = IdleRc /\ hs = IdleHs /\ sr = IdleSr
    /\ bt = IdleBt /\ rm = IdleRm

SpecStore == InitStore /\ [][send_message_impl \/ add_user_message
                             \/ add_assistant_message
                             \/ replace_last_assistant_message
                             \/ rename_stored_thread \/ delete_thread]_vars

\* u1's thread t1 exists; request 1 is a /chat/stream request of u1, for t1
\* or for a new thread, and the other requests are /chat requests on t1
InitPersist ==
    /\ IdleService
    /\ db \in {[IdleDb EXCEPT
                   !.threads[<<"u1", "t1">>] =
                       Some([title |-> <<>>, messages |-> <<>>]),
                   !.req = [i \in 1..MaxSends |->
                              IF i = 1
                                THEN [pc |-> "new", path |-> "stream",
                                      user_id |-> "u1", requested |-> t,
                                      thread_id |-> IF t = None THEN "" ELSE t[1],
                                      message |-> "hi", reply |-> <<>>]
                                ELSE [pc |-> "new", path |-> "chat",
                                      user_id |-> "u1", requested |-> Some("t1"),
                                      thread_id |-> "t1",
                                      message |-> "hi", reply |-> ""]]] :
                t \in {None, Some("t1")}}
    /\ cl = IdleCl /\ rc = IdleRc /\ hs = IdleHs /\ sr = IdleSr
    /\ bt = IdleBt /\ rm = IdleRm

SpecPersist == InitPersist /\ [][build_stream_payload \/ create_thread_with_id
                                 \/ add_user_message \/ add_assistant_message
                                 \/ stream_chat \/ stream_reply \/ Disconnect
                                 \/ CloseGenerator \/ send_message_impl
                                 \/ delete_thread]_vars

\* the thread is missing or holds one exchange; the cache is empty or holds
\* the thread as the base store has it; the operations are yet to start
InitCache ==
    /\ IdleService
    /\ db \in {[IdleDb EXCEPT
                   !.threads[CachedThread] = th,
                   !.cache = c,
                   !.ops = o] :
                th \in {None,
                        Some([title |-> <<>>,
                              messages |-> <<[role |-> "user", content |-> "hi", by |-> 0],
                                             [role |-> "assistant", content |-> "ok",
                                              by |-> 0]>>])},
                c \in {None, Some([json |-> [title |-> <<>>,
                              messages |-> <<[role |-> "user", content |-> "hi", by |-> 0],
                                             [role |-> "assistant", content |-> "ok",
                                              by |-> 0]>>]])},
                o \in [1..MaxOps ->
                         {[kind |-> k, pc |-> "new", seen |-> None, result |-> None,
                           base_calls |-> 0] : k \in ReadOps \cup WriteOps}]}
    /\ db.cache # None => db.threads[CachedThread] = Some(db.cache[1].json)
    /\ cl = IdleCl /\ rc = IdleRc /\ hs = IdleHs /\ sr = IdleSr
    /\ bt = IdleBt /\ rm = IdleRm

SpecCache == InitCache /\ [][cache_lookup \/ cache_read_base \/ cache_fill
                             \/ cache_write_base \/ invalidate_thread]_vars

\* the service as configured, no chat request under way
InitReady ==
    /\ mock_mode \in BOOLEAN /\ api_key \in BOOLEAN
    /\ client = rebuild_client(api_key)
    /\ NoRequest
    /\ rm \in {[IdleRm EXCEPT !.today = 1, !.caller = c] :
                c \in [Callers -> {[pc |-> "new", user |-> u, day_key |-> 0,
                                    message |-> <<>>, response |-> None] :
                                      u \in {"anonymous", "u1"}}]}
    /\ cl = IdleCl /\ rc = IdleRc /\ hs = IdleHs /\ sr = IdleSr /\ bt = IdleBt
    /\ db = IdleDb

SpecReady == InitReady /\ [][ready_lookup \/ ready_generate \/ ready_clear
                             \/ ready_set \/ NextDay]_vars

----------------------------------------------------------------------------
(* Properties of generate_response (Spec) *)

Done == pc = "done"

\* the request went through the pipeline: live mode, store and key present,
\* history read
InPipeline == ~mock_mode /\ api_key /\ store.kind = "ok"

CallsOf(kind) == {i \in 1..Len(calls) : calls[i].kind = kind}

\* the JSON object a provider response consists of, if it is exactly one
ResponseObject(o) ==
    IF ~o.raises /\ Len(o.text) = 1 /\ o.text[1].k = "obj"
      THEN Some(o.text[1].p) ELSE None

\* a classifier call of the request raised
SomeClassifierCallRaised ==
    \E i \in 1..Len(calls) :
        calls[i].kind # "generation" /\ stub[calls[i].kind].raises

\* C1: generate_response never raises and always returns non-empty text,
\* in every configuration and for every outcome of the provider calls
C1_AlwaysNonEmptyReply == ~raised /\ (Done => reply # <<>>)

\* a live request whose provider call raised has returned
C1_Witness_ProviderRaised ==
    Done /\ InPipeline /\ calls # <<>> /\ stub[calls[Len(calls)].kind].raises

\* C2: with the risk stage enabled, once the risk assessment is high the
\* crisis strategy is selected and no violence, emotion, de-escalation or
\* standard step is taken
C2_HighRiskSelectsCrisis ==
    (enable_risk /\ risk # None /\ risk[1].overall_risk = "high") =>
        /\ strategy = "crisis"
        /\ pc \in {"crisis_strengths", "crisis_generation", "done"}
        /\ CallsOf("violence") = {} /\ CallsOf("emotion") = {}
        /\ \A i \in CallsOf("generation") : calls[i].prompt = "crisis"
        /\ violence_assessment = None /\ emotion = None

\* a high-risk request answered by the crisis generation call
C2_Witness_CrisisReply ==
    /\ Done /\ risk # None /\ risk[1].overall_risk = "high"
    /\ \E i \in CallsOf("generation") : calls[i].prompt = "crisis"
    /\ reply = <<"a">>

C3_Responses ==
    /\ enable_risk /\ risk # None
    /\ ResponseObject(stub.risk) # None
    /\ ResponseObject(stub.risk)[1]["self_harm"] = J("num", 10)
    /\ ResponseObject(stub.violence) # None
    /\ ResponseObject(stub.violence)[1]["other_directed_violence"] = J("str", "explicit")
    /\ ResponseObject(stub.violence)[1]["confidence"] = J("num", 90)

\* C3 as stated: risk response with self_harm 0.1 and violence response
\* explicit/0.9 select de-escalation whatever the other risk fields,
\* overall_risk included
C3_Original_DeescalationSelected == (Done /\ C3_Responses) => strategy = "deesc"

\* C3 amended: the same for every overall_risk other than high (with high the
\* crisis strategy is selected and the violence classifier is not called)
C3_DeescalationSelectedUnlessHigh ==
    (Done /\ C3_Responses
          /\ ResponseObject(stub.risk)[1]["overall_risk"] # J("str", "high"))
        => (strategy = "deesc" /\ CallsOf("emotion") = {}
            /\ \A i \in CallsOf("generation") : calls[i].prompt = "deesc")

\* de-escalation reply for self_harm 0.1, explicit/0.9 and a risk violence
\* score below the score threshold
C3_Witness_Deescalated ==
    /\ Done /\ C3_Responses /\ strategy = "deesc"
    /\ risk[1].violence < DEESC_MIN_VIOLENCE
    /\ \E i \in CallsOf("generation") : calls[i].prompt = "deesc"

\* C5: a classifier whose provider call raises yields its default and the
\* request still reaches the generation call of the selected strategy
C5_ClassifierFailureContinues ==
    (Done /\ InPipeline /\ SomeClassifierCallRaised) => CallsOf("generation") # {}

\* the calls of the four stages, in the order made
RECURSIVE StageKinds(_)
StageKinds(cs) ==
    IF cs = <<>> THEN <<>>
    ELSE IF Head(cs).kind \in {"risk", "violence", "emotion", "generation"}
           THEN <<Head(cs).kind>> \o StageKinds(Tail(cs))
           ELSE StageKinds(Tail(cs))

\* C7: live, risk and emotion enabled, risk low, violence none and no
\* de-escalation: the stage calls are risk, violence, emotion and exactly one
\* generation call with the standard prompt
C7_StandardPathCallOrder ==
    (/\ Done /\ InPipeline /\ enable_risk /\ enable_emotion
     /\ risk # None /\ risk[1].overall_risk = "low"
     /\ violence_assessment # None
     /\ violence_assessment[1].other_directed_violence = "none"
     /\ ~should_run_violence_deescalation(risk[1], violence_assessment[1]))
    => /\ StageKinds(calls) = <<"risk", "violence", "emotion", "generation">>
       /\ calls[Len(calls)].prompt = "standard"

\* C8: with the risk stage disabled there is no risk or violence call, crisis
\* and de-escalation are never selected, and the reply of a request that went
\* through the pipeline comes from the standard strategy
C8_RiskDisabledStandardOnly ==
    ~enable_risk =>
        /\ CallsOf("risk") = {} /\ CallsOf("violence") = {}
        /\ strategy \notin {"crisis", "deesc"}
        /\ (Done /\ InPipeline) =>
              /\ strategy = "standard"
              /\ enable_emotion => CallsOf("emotion") # {}

\* C9: when a call to the first provider fails and a fallback provider is
\* configured, the call is issued to the next provider of the configured order
C9_FailoverToNextProvider ==
    (/\ Done /\ InPipeline /\ fallback_providers # <<>>
     /\ \E i \in 1..Len(calls) : stub[calls[i].kind].raises)
    => \E i \in 1..Len(calls) : calls[i].provider = fallback_providers[1]

\* C12: in mock mode the reply is "You said: " followed by the message as
\* given, and no provider call and no store read is made, whatever the risk
\* and emotion flags, the key and the store
C12_MockEcho ==
    mock_mode =>
        /\ calls = <<>> /\ store_reads = 0 /\ history = <<>>
        /\ Done => (/\ Len(reply) = Len(user_message) + 1
                    /\ reply[1] = "You said: "
                    /\ \A k \in 1..Len(user_message) : reply[k + 1] = user_message[k])

\* a blank message echoed in mock mode with every stage enabled, a key and a
\* store configured
C12_Witness_BlankEchoed ==
    /\ Done /\ mock_mode /\ enable_risk /\ enable_emotion /\ api_key
    /\ store.kind = "ok" /\ store.thread # <<>>
    /\ user_message = <<" ">> /\ reply = <<"You said: ", " ">>

\* C13: when get_thread raises during history retrieval the request goes on
\* with an empty history: the enabled classifier stages and the generation
\* call of the selected strategy are still made
C13_StoreFailureContinues ==
    (Done /\ ~mock_mode /\ api_key /\ store.kind = "failing") =>
        /\ history = <<>>
        /\ CallsOf("generation") # {}
        /\ enable_risk => CallsOf("risk") # {}

\* the live request fell back: store or key missing, the store read or a
\* provider call raised, or the generation call returned blank text
FellBack ==
    \/ store.kind \in {"none", "failing"}
    \/ ~api_key
    \/ \E i \in 1..Len(calls) : stub[calls[i].kind].raises
    \/ /\ CallsOf("generation") # {}
       /\ \A k \in 1..Len(stub.generation.text) : stub.generation.text[k] = " "

\* C16: the text of a live-mode fallback is one of two fixed strings, chosen
\* by whether the user message is non-blank and by nothing else
C16_FallbackText ==
    (Done /\ ~mock_mode /\ FellBack) =>
        reply = IF \E k \in 1..Len(user_message) : user_message[k] # " "
                  THEN FALLBACK_LISTENING ELSE FALLBACK_HERE

\* the crisis generation call raised on a thread with history, blank message
C16_Witness_CrisisGenerationFailed ==
    /\ Done /\ ~mock_mode /\ strategy = "crisis" /\ history # <<>>
    /\ CallsOf("generation") # {} /\ stub.generation.raises
    /\ user_message = <<" ">> /\ reply = FALLBACK_HERE

----------------------------------------------------------------------------
(* Properties of the classifiers (SpecClassify) *)

ClDone(kind) == cl.kind = kind /\ cl.pc = "done"

DictGet(d, key, default) == IF key \in DOMAIN d THEN d[key] ELSE default

\* C4: the de-escalation decision is exactly
\* (class in {venting, explicit} and confidence >= 0.35)
\* or (risk.violence >= 0.65 and risk.self_harm < 0.4), absent fields read as
\* class none and score 0
C4_DeescalationDecision ==
    ClDone("deescalation") =>
        (cl.deescalate <=>
            \/ /\ DictGet(cl.v, "other_directed_violence", "none")
                     \in {"venting", "explicit"}
               /\ DictGet(cl.v, "confidence", 0) >= 35
            \/ /\ DictGet(cl.r, "violence", 0) >= 65
               /\ DictGet(cl.r, "self_harm", 0) < 40)

\* the decision at the confidence threshold with no risk scores given
C4_Witness_AtThreshold ==
    /\ ClDone("deescalation") /\ cl.deescalate
    /\ cl.r = <<>>
    /\ cl.v = [other_directed_violence |-> "venting", confidence |-> 35]

SchemaKeys(kind) ==
    CASE kind = "risk" -> RiskScoreKeys \cup {"overall_risk"}
      [] kind = "violence" -> {"other_directed_violence", "imminence", "confidence"}
      [] kind = "emotion" -> {"label", "confidence"}
      [] OTHER -> {}

EnumOf(kind, key) ==
    CASE key = "overall_risk" -> RiskLevels
      [] key = "other_directed_violence" -> ViolenceClasses
      [] key = "imminence" -> Imminences
      [] key = "label" -> EmotionLabels
      [] OTHER -> {}

EnumKeys == {"overall_risk", "other_directed_violence", "imminence", "label"}

\* the member is missing, of the wrong type, or outside its enum
MemberOffSchema(kind, key, v) ==
    \/ v.t = "absent"
    \/ key \in EnumKeys /\ (v.t # "str" \/ v.s \notin EnumOf(kind, key))
    \/ key \notin EnumKeys /\ v.t # "num"

\* the response text is empty, holds no JSON object, or is one object that is
\* off the classifier's schema
Malformed(kind, text) ==
    \/ text = <<>>
    \/ \A i \in 1..Len(text) : text[i].k # "obj"
    \/ /\ Len(text) = 1 /\ text[1].k = "obj"
       /\ \E key \in SchemaKeys(kind) : MemberOffSchema(kind, key, text[1].p[key])

ClResult ==
    CASE cl.kind = "risk" -> cl.risk
      [] cl.kind = "violence" -> cl.violence
      [] OTHER -> cl.emotion

ClDefault ==
    CASE cl.kind = "risk" -> RiskDefault
      [] cl.kind = "violence" -> ViolenceDefault
      [] OTHER -> EmotionDefault

\* C6: on every malformed or off-schema response text the risk, violence and
\* emotion classifiers return exactly their documented default
C6_MalformedYieldsDefault ==
    (cl.kind \in {"risk", "violence", "emotion"} /\ cl.pc = "done"
     /\ Malformed(cl.kind, cl.text))
    => ClResult = ClDefault

----------------------------------------------------------------------------
(* Properties of the provider clients (SpecRetry) *)

RetryableFor(impl) == IF impl = "huggingface" THEN HF_RETRYABLE ELSE GENERIC_RETRYABLE

Extracted == IF rc.impl = "gemini" THEN extract_gemini_text(rc.payload)
             ELSE extract_chat_content(rc.payload)

\* the call is over, and its attempts were k retryable HTTP errors followed by
\* a success carrying text, with k < max_attempts
FailedThenSucceeded ==
    /\ rc.pc \in {"returned", "raised"}
    /\ rc.outcomes # <<>>
    /\ Len(rc.outcomes) - 1 < rc.max_attempts
    /\ \A n \in 1..(Len(rc.outcomes) - 1) :
          /\ rc.outcomes[n].kind = "http"
          /\ rc.outcomes[n].status \in RetryableFor(rc.impl)
    /\ rc.outcomes[Len(rc.outcomes)].kind = "ok"
    /\ ~Extracted.raised

ExactlyKPlusOneCalls ==
    /\ rc.pc = "returned"
    /\ rc.http_calls = Len(rc.outcomes)
    /\ rc.result = Strip(Extracted.value)
    /\ Len(rc.sleeps) = Len(rc.outcomes) - 1

\* C10 as stated: k retryable failures then a success make k+1 HTTP calls,
\* return the text, and the delay before attempt n+1 is
\* min(backoffFactor^(n-1), 10)
C10_Original_RetryDelays ==
    FailedThenSucceeded =>
        /\ ExactlyKPlusOneCalls
        /\ \A n \in 1..Len(rc.sleeps) :
              rc.sleeps[n] = Min(Pow(rc.backoff_factor, n - 1), 10)

\* C10 amended: the delay before attempt n+1 is
\* min(max(backoffFactor^(n-1), hint), 10), where hint is the estimated_time
\* of the failed response in the Hugging Face client and 0 otherwise
C10_RetryDelaysWithHint ==
    FailedThenSucceeded =>
        /\ ExactlyKPlusOneCalls
        /\ \A n \in 1..Len(rc.sleeps) :
              LET hint == IF rc.impl = "huggingface" /\ rc.outcomes[n].hint # NoHint
                            THEN rc.outcomes[n].hint ELSE 0
              IN rc.sleeps[n] = Min(Max(Pow(rc.backoff_factor, n - 1), hint), 10)

\* 503, 503, 200 on a budget of three attempts
C10_Witness_TwoRetries ==
    /\ rc.pc = "returned" /\ rc.max_attempts = 3 /\ rc.http_calls = 3
    /\ rc.outcomes[1].status = 503 /\ rc.outcomes[2].status = 503
    /\ rc.backoff_factor = 2 /\ rc.sleeps = <<1, 2>>

----------------------------------------------------------------------------
(* Properties of the streamed reply (SpecStream) *)

\* type of the n-th event of a complete stream of a reply of N characters
ExpectedType(n, N) ==
    IF n = 1 THEN "meta" ELSE IF n <= N + 1 THEN "delta" ELSE "done"

\* C11: for a reply of N characters _stream_reply emits one meta event, then
\* one delta event per character of the reply in order, then one done event:
\* N + 2 events when run to its end, and nothing after done
C11_StreamEvents ==
    (~sr.temporary /\ sr.pc # "idle") =>
        LET N == Len(sr.reply)
            ev == sr.events
        IN /\ Len(ev) <= N + 2
           /\ \A n \in 1..Len(ev) : ev[n].json.type = ExpectedType(n, N)
           /\ \A n \in 1..Len(ev) :
                 ev[n].json.type = "delta" => ev[n].json.delta = Some(sr.reply[n - 1])
           /\ \A n \in 1..Len(ev) :
                 ev[n].json.type # "delta" => ev[n].json.thread_id = Some(sr.thread_id)
           /\ Len(ev) >= 1 => ev[1].json.is_new_thread = Some(sr.is_new_thread)
           /\ sr.pc \in {"done", "exhausted"} => Len(ev) = N + 2

\* a reply with blanks at both ends streamed to its end
C11_Witness_StreamedToEnd ==
    /\ ~sr.temporary /\ sr.pc = "exhausted"
    /\ sr.reply = <<" ", "a", " ">> /\ Len(sr.events) = 5

\* C20: events are produced on demand, one for each one the consumer asked
\* for; after the consumer stopped reading at k events the generator emits
\* nothing more, neither a delta nor the done event
C20_NoEventAfterDisconnect ==
    sr.pc # "idle" =>
        /\ Len(sr.events) = sr.consumed
        /\ (sr.consumer = "disconnected" /\ Len(sr.events) < Len(sr.reply) + 2) =>
              \A n \in 1..Len(sr.events) : sr.events[n].json.type # "done"

\* the client left after the meta event and one delta of a longer reply
C20_Witness_LeftMidStream ==
    /\ sr.consumer = "disconnected" /\ sr.pc = "closed"
    /\ Len(sr.reply) = 3 /\ sr.consumed = 2 /\ Len(sr.events) = 2

----------------------------------------------------------------------------
(* Properties of the history (SpecHistory) *)

IsChatMessage(m) ==
    m.role \in {"user", "assistant"} /\ \E k \in 1..Len(m.content) : m.content[k] # " "

RECURSIVE IsSubsequence(_, _)
IsSubsequence(a, b) ==
    IF a = <<>> THEN TRUE
    ELSE IF b = <<>> THEN FALSE
    ELSE IF Head(a) = Head(b) THEN IsSubsequence(Tail(a), Tail(b))
    ELSE IsSubsequence(a, Tail(b))

\* the last n messages of the stored thread
LastStored(n) ==
    LET m == thread_messages(hs.thread)
        k == IF n < Len(m) THEN n ELSE Len(m)
    IN [j \in 1..k |-> m[Len(m) - k + j]]

BoundedChatHistory(h) ==
    /\ Len(h) <= 10
    /\ \A j \in 1..Len(h) : IsChatMessage(h[j])
    /\ IsSubsequence(h, LastStored(10))

\* C15: the history read for a request, and the part of it sent with a
\* generation call, hold at most 10 messages, all of role user or assistant
\* with non-blank content, in stored order, from the last 10 stored messages
C15_HistoryBounded ==
    /\ hs.pc \in {"read", "sent"} => BoundedChatHistory(hs.history)
    /\ hs.pc = "sent" => BoundedChatHistory(hs.context)

\* a stored thread of more than 10 messages whose last 10 all count
C15_Witness_LongThread ==
    /\ hs.pc = "sent" /\ Len(thread_messages(hs.thread)) > 10
    /\ ~IsChatMessage(thread_messages(hs.thread)[1])
    /\ Len(hs.history) = 10 /\ Len(hs.context) = 8

----------------------------------------------------------------------------
(* Well-formedness of the assessments (SpecClassify) *)

UnitInterval == 0..100

\* C14: every assessment a classifier returns is well-formed: risk scores and
\* violence confidence in [0,1], overall_risk, class and imminence in their
\* enums, the emotion label in the fixed closed set
C14_AssessmentsWellFormed ==
    /\ ClDone("risk") =>
          /\ \A k \in RiskScoreKeys : cl.risk[k] \in UnitInterval
          /\ cl.risk.overall_risk \in RiskLevels
    /\ ClDone("violence") =>
          /\ cl.violence.confidence \in UnitInterval
          /\ cl.violence.other_directed_violence \in ViolenceClasses
          /\ cl.violence.imminence \in Imminences
    /\ ClDone("emotion") => cl.emotion.label \in EmotionLabels

----------------------------------------------------------------------------
(* Properties of the titling worker (SpecTitle) *)

\* C17: nothing that happens in a titling worker reaches the request that
\* started it: no request raises, and a request that returned has returned
\* the reply it generated
C17_TitlerNeverRaisesIntoRequest ==
    \A i \in DOMAIN bt.req :
        /\ ~bt.req[i].raised
        /\ bt.req[i].pc = "returned" => bt.req[i].response = bt.req[i].reply

\* the title generation raised in the worker of a request that returned
C17_Witness_GenerationRaised ==
    \E i \in DOMAIN bt.req :
        /\ bt.task[i].end = "raised"
        /\ bt.req[i].pc = "returned" /\ bt.req[i].response = bt.req[i].reply

\* C18: a titling worker generates a title and writes it only while the
\* stored title of the thread is blank
C18_TitlerOnlyOnBlankTitle ==
    [][\A i \in DOMAIN bt.task :
          (bt.task[i].pc \in {"generate", "write"}
              /\ bt'.task[i].pc # bt.task[i].pc)
          => bt.title = <<>>]_vars

----------------------------------------------------------------------------
(* Properties of the daily greeting (SpecReady) *)

\* C19: all get_ready_message requests of one UTC date return the same
\* greeting, and that greeting is the one the cache holds for the date
C19_SameGreetingForDate ==
    \A i \in DOMAIN rm.caller : \A j \in DOMAIN rm.caller :
        (/\ rm.caller[i].pc = "returned" /\ rm.caller[j].pc = "returned"
         /\ rm.caller[i].day_key = rm.caller[j].day_key)
        => rm.caller[i].response = rm.caller[j].response

----------------------------------------------------------------------------
(* Properties of the generation prompts (Spec) *)

\* C21: every generation call, whatever its strategy, follows a strengths
\* analysis and a pattern analysis of the request, and its prompt has the
\* strengths line, the pattern line and the anti-repetition line exactly when
\* the strengths, the patterns and the recent assistant messages are non-empty
C21_SameContextInEveryStrategy ==
    \A i \in CallsOf("generation") :
        /\ \E j \in CallsOf("strengths") : j < i
        /\ \E j \in CallsOf("patterns") : j < i
        /\ "strengths" \in calls[i].lines <=> strengths # <<>>
        /\ "patterns" \in calls[i].lines
              <=> \E k \in PatternKeys : user_patterns[k] # <<>>
        /\ "anti_repeat" \in calls[i].lines
              <=> extract_recent_assistant_messages(
                      history, RECENT_ASSISTANT_LIMIT) # <<>>

\* the emotion assessment the provider's response to the emotion prompt decodes to
EmotionOfResponse == run_emotion(stub.emotion).value

\* C22: the prompt of a generation call has the emotion line exactly when the
\* strategy is standard, the emotion stage is enabled and the confidence of
\* the assessment is at least 0.4
C22_EmotionLineOnlyStandard ==
    \A i \in CallsOf("generation") :
        "emotion" \in calls[i].lines
        <=> (/\ calls[i].prompt = "standard"
             /\ enable_emotion
             /\ EmotionOfResponse.confidence >= EMOTION_MIN_CONFIDENCE)

\* a standard reply whose prompt carried the emotion line
C22_Witness_EmotionInjected ==
    /\ Done
    /\ \E i \in CallsOf("generation") :
          calls[i].prompt = "standard" /\ "emotion" \in calls[i].lines

----------------------------------------------------------------------------
(* Properties of the confidence-gated analyses and of the extraction       *)
(* (SpecClassify)                                                          *)

\* every object of the response text has a confidence below 0.35 or none
LowConfidence(text) ==
    \A i \in 1..Len(text) :
        text[i].k = "obj" =>
            LET c == text[i].p["confidence"]
            IN c.t \in {"absent", "null"} \/ (c.t = "num" /\ c.n < 35)

\* C23: the strengths analysis returns no strength and the pattern analysis
\* the empty profile when the confidence of the response is below 0.35 or
\* absent; a result holds at most 2 strengths and at most 3 phrases per key
C23_ConfidenceGate ==
    /\ ClDone("strengths") =>
          /\ Len(cl.strengths) <= 2
          /\ LowConfidence(cl.text) => cl.strengths = <<>>
    /\ ClDone("patterns") =>
          /\ \A k \in PatternKeys : Len(cl.patterns[k]) <= 3
          /\ LowConfidence(cl.text) => cl.patterns = NoPatterns

\* a response at the threshold with four phrases, of which three are kept
C23_Witness_Truncated ==
    /\ ClDone("patterns")
    /\ Len(cl.text) = 1 /\ cl.text[1].k = "obj"
    /\ cl.text[1].p["confidence"] = J("num", 35)
    /\ cl.text[1].p["emotions"] = J("list", <<"a", "a", "a", "a">>)
    /\ cl.patterns["emotions"] = <<"a", "a", "a">>

\* C24: when the response text is a JSON object followed by text that has
\* braces, the assessment is the one built from the first object alone
C24_FirstObjectDecoded ==
    (/\ cl.kind \in {"risk", "violence", "emotion"} /\ cl.pc = "done"
     /\ Len(cl.text) = 2 /\ cl.text[1].k = "obj"
     /\ cl.text[2].k \in {"{", "}", "obj"})
    => ClResult =
          CASE cl.kind = "risk" -> run_risk(Text(<<cl.text[1]>>)).value
            [] cl.kind = "violence" ->
                  run_violence_intent(Text(<<cl.text[1]>>)).value
            [] OTHER -> run_emotion(Text(<<cl.text[1]>>)).value

----------------------------------------------------------------------------
(* Properties of the conversation store and of the chat request            *)
(* (SpecStore)                                                             *)

\* the positions of the messages of role `role` that request i appended to
\* its thread, which exists
PositionsOf(i, role) ==
    LET th == get_thread(db.req[i].user_id, db.req[i].thread_id)
    IN IF th = None THEN {}
       ELSE {n \in DOMAIN th[1].messages :
               th[1].messages[n].by = i /\ th[1].messages[n].role = role}

\* C25: the user's message of a request is in the store when the generation
\* of its reply starts
C25_UserMessageSavedBeforeGeneration ==
    [][\A i \in DOMAIN db.req :
          (db.req[i].pc = "new" /\ db'.req[i].pc # "new")
          => PositionsOf(i, "user") # {}]_vars

\* C26: in every state the user message of an exchange is in its thread
\* exactly when the assistant reply of the exchange is, and the reply is the
\* message right after it
C26_ExchangeAtomic ==
    \A i \in DOMAIN db.req :
        /\ PositionsOf(i, "user") # {} <=> PositionsOf(i, "assistant") # {}
        /\ \A n \in PositionsOf(i, "user") : n + 1 \in PositionsOf(i, "assistant")

\* C27: a thread that exists holds exactly the messages added to it, in the
\* order of their addition, and an operation on one thread changes no other
\* thread
C27_NoLeakAcrossThreads ==
    /\ [](\A k \in DOMAIN db.threads :
            db.threads[k] # None =>
                [n \in DOMAIN db.threads[k][1].messages |->
                    [role |-> db.threads[k][1].messages[n].role,
                     by |-> db.threads[k][1].messages[n].by]] = db.added[k])
    /\ [][\A k \in DOMAIN db.threads :
            k # db'.last => db'.threads[k] = db.threads[k]]_vars

\* two users hold a thread of the same id, one with an exchange and the
\* other deleted after a message was added to it
C27_Witness_SameIdOtherUser ==
    \E t \in ThreadIds :
        /\ db.threads[<<"u1", t>>] # None
        /\ Len(db.threads[<<"u1", t>>][1].messages) = 2
        /\ db.threads[<<"u2", t>>] = None
        /\ db.added[<<"u2", t>>] # <<>>

----------------------------------------------------------------------------
(* Properties of the attempt budget and of the errors of a provider call   *)
(* (SpecRetry)                                                             *)

Succeeded == \E n \in DOMAIN rc.outcomes : rc.outcomes[n].kind = "ok"

\* C28: a chat_completions call makes at most max(maxAttempts, 1) HTTP
\* attempts; while it may attempt again its budget is not spent, it returns
\* a value only after a successful attempt, and once its attempts are over
\* without a success it has raised
C28_AttemptBudget ==
    LET budget == IF rc.max_attempts >= 1 THEN rc.max_attempts ELSE 1
    IN /\ rc.http_calls <= budget
       /\ rc.http_calls = Len(rc.outcomes)
       /\ rc.pc = "post" => rc.http_calls < budget
       /\ rc.pc = "returned" => Succeeded
       /\ (rc.pc \notin {"idle", "post"} /\ ~Succeeded) => rc.pc = "raised"

\* a budget of 0 (or less): one attempt, which failed, and the error
C28_Witness_ZeroBudget ==
    /\ rc.max_attempts <= 0 /\ rc.http_calls = 1
    /\ rc.pc = "raised" /\ ~Succeeded

\* the statuses no client retries, and 408 for the Hugging Face client
NonRetryable(impl) ==
    {400, 401, 403, 404} \cup (IF impl = "huggingface" THEN {408} ELSE {})

\* C29: an HTTP error with a status outside the retryable set is the last
\* attempt of its call: the call has raised the provider error, and the
\* only sleeps are those after the attempts before it
C29_NonRetryableRaisesAtOnce ==
    \A n \in DOMAIN rc.outcomes :
        (rc.outcomes[n].kind = "http"
         /\ rc.outcomes[n].status \in NonRetryable(rc.impl))
        => /\ n = Len(rc.outcomes) /\ rc.http_calls = n
           /\ rc.pc = "raised" /\ rc.error = "status"
           /\ Len(rc.sleeps) = n - 1

\* 503 then 401 on a budget of three attempts
C29_Witness_BudgetLeft ==
    /\ rc.max_attempts = 3 /\ rc.pc = "raised" /\ Len(rc.outcomes) = 2
    /\ rc.outcomes[1].status = 503 /\ rc.outcomes[2].status = 401
    /\ Len(rc.sleeps) = 1

\* the payload has no choices[0].message.content and no choices[0].text, or
\* for Gemini no candidate text that is non-empty once stripped
NoLocatableContent(impl, payload) ==
    IF impl = "gemini"
      THEN \/ payload.parts = None
           \/ \A n \in DOMAIN payload.parts[1] :
                 \A c \in DOMAIN payload.parts[1][n] : payload.parts[1][n][c] = " "
      ELSE payload.message = None /\ payload.text = None

\* C30: a successful response is the last attempt of its call, and when its
\* payload has no locatable content the call raises the provider error and
\* returns nothing
C30_MissingContentRaises ==
    \A n \in DOMAIN rc.outcomes :
        rc.outcomes[n].kind = "ok" =>
            /\ n = Len(rc.outcomes) /\ rc.http_calls = n
            /\ rc.pc \in {"extract", "returned", "raised"}
            /\ NoLocatableContent(rc.impl, rc.outcomes[n].payload) =>
                  /\ rc.pc # "returned"
                  /\ rc.pc = "raised" => rc.error = "no_content"

\* a first response without content on a budget of three attempts
C30_Witness_FirstResponseEmpty ==
    /\ rc.max_attempts = 3 /\ rc.http_calls = 1 /\ rc.outcomes[1].kind = "ok"
    /\ rc.outcomes[1].payload = NoPayload
    /\ rc.pc = "raised" /\ rc.error = "no_content"

\* C31: in the Hugging Face client the sleep after failed attempt n is
\* min(max(backoffFactor^(n-1), hint), 10) seconds, hint being the
\* estimated_time of the failed response and 0 without one; no sleep is
\* longer than 10 seconds and the last attempt of the budget has no sleep
C31_HintedSleepCapped ==
    rc.impl = "huggingface" =>
        /\ Len(rc.sleeps) <= Len(rc.outcomes)
        /\ Len(rc.sleeps) < (IF rc.max_attempts >= 1 THEN rc.max_attempts ELSE 1)
        /\ \A n \in DOMAIN rc.sleeps :
              LET o == rc.outcomes[n]
                  hint == IF o.kind = "http" /\ o.hint # NoHint THEN o.hint ELSE 0
                  power == Pow(rc.backoff_factor, n - 1)
                  longer == IF hint > power THEN hint ELSE power
              IN /\ rc.sleeps[n] = (IF longer < 10 THEN longer ELSE 10)
                 /\ rc.sleeps[n] <= 10

\* hints of 3 s and 20 s on a factor of 2: sleeps of 3 s and 10 s, and the
\* third and last attempt fails without a sleep
C31_Witness_HintLengthensToCap ==
    /\ rc.impl = "huggingface" /\ rc.max_attempts = 3 /\ rc.backoff_factor = 2
    /\ rc.http_calls = 3 /\ rc.pc = "raised" /\ rc.sleeps = <<3, 10>>
    /\ rc.outcomes[1].hint = 3 /\ rc.outcomes[2].hint = 20

----------------------------------------------------------------------------
(* Strategy selection as a function of its three inputs (Spec) *)

\* the strategy that the risk-enable flag, the risk assessment and the
\* violence assessment select; "none" while an assessment it needs is missing
SelectedBy(flag, r, v) ==
    IF ~flag THEN "standard"
    ELSE IF r = None THEN "none"
    ELSE IF is_high_risk(r[1]) THEN "crisis"
    ELSE IF v = None THEN "none"
    ELSE IF should_run_violence_deescalation(r[1], v[1]) THEN "deesc"
    ELSE "standard"

\* C32: the strategy of a request is a function of the risk-enable flag, the
\* risk assessment and the violence assessment only: whatever the history,
\* the emotion assessment, the analyses and the generated text, a selected
\* strategy is the one these three determine
C32_SelectionDependsOnThreeInputs ==
    strategy # "none" =>
        strategy = SelectedBy(enable_risk, risk, violence_assessment)

\* a standard request with history, an emotion assessment and a generated
\* reply, after a risk and a violence assessment that select nothing else
C32_Witness_StandardAfterAssessments ==
    /\ Done /\ ~raised /\ strategy = "standard" /\ enable_risk
    /\ risk # None /\ violence_assessment # None /\ emotion # None
    /\ history # <<>> /\ CallsOf("generation") # {}

----------------------------------------------------------------------------
(* Properties of the persisted stream (SpecPersist) *)

\* the store was asked to add the user message and then the reply of
\* request i to the request's thread
ExchangeSaved(i) ==
    LET a == db.added[<<db.req[i].user_id, db.req[i].thread_id>>]
    IN \E m, n \in DOMAIN a :
          /\ m < n
          /\ a[m] = [role |-> "user", by |-> i]
          /\ a[n] = [role |-> "assistant", by |-> i]

\* C33: on the persisted /chat/stream path a stream exists only for a reply
\* that is complete and saved with its user message; a failed save leaves no
\* stream and no event; and no step of the stream, the consumer's disconnect
\* included, changes a stored thread
C33_SavedBeforeFirstEvent ==
    /\ [](/\ sr.pc # "idle" =>
               /\ db.req[1].pc = "returned"
               /\ sr.reply = db.req[1].reply
               /\ ExchangeSaved(1)
          /\ db.req[1].pc # "returned" => (sr.pc = "idle" /\ sr.events = <<>>))
    /\ [][sr' # sr => db' = db]_vars

\* the consumer left after the meta event of a reply of two characters,
\* which is stored whole with its user message
C33_Witness_LeftAfterMeta ==
    /\ sr.consumer = "disconnected" /\ sr.pc = "closed" /\ Len(sr.events) = 1
    /\ Len(sr.reply) = 2 /\ sr.is_new_thread
    /\ get_thread("u1", "t2") # None
    /\ \E n \in DOMAIN get_thread("u1", "t2")[1].messages :
          /\ get_thread("u1", "t2")[1].messages[n].role = "assistant"
          /\ get_thread("u1", "t2")[1].messages[n].content = sr.reply

----------------------------------------------------------------------------
(* The greeting cache under requests in flight (SpecReady) *)

\* C34: once a message is stored for the current UTC date it stays the stored
\* message of that date, and a request that looks the cache up returns it
\* without a provider call, whatever the requests still in flight do
C34_StoredGreetingStays ==
    [][\A d \in 1..MaxDay :
          (rm.today = d /\ rm'.today = d /\ rm.cache[d] # None) =>
              /\ rm'.cache[d] = rm.cache[d]
              /\ \A i \in DOMAIN rm.caller :
                    (rm.caller[i].pc = "new" /\ rm'.caller[i].pc # "new") =>
                        /\ rm'.caller[i].pc = "returned"
                        /\ rm'.caller[i].response =
                               Some([date |-> d, message |-> rm.cache[d][1]])
                        /\ rm'.provider_calls = rm.provider_calls]_vars

----------------------------------------------------------------------------
(* Properties of the Redis wrapper (SpecCache) *)

Quiescent == \A i \in DOMAIN db.ops : ~InProgress(db.ops[i])

\* C35: without any Redis failure, whenever no wrapper operation is in
\* progress a thread payload held in the cache is the payload the base
\* store returns for the thread
C35_CacheAgreesWithBase ==
    (Quiescent /\ ~db.redis_failed /\ db.cache # None) =>
        /\ get_thread("u1", "t1") # None
        /\ db.cache[1].json = get_thread("u1", "t1")[1]

\* C36: in a run where operations do not overlap, whatever Redis calls fail,
\* a get_thread or thread_exists that returns gives the answer of the base
\* store, a write operation has called the base store exactly once when it
\* returns or raises, and no operation raises unless the base store does
C36_BaseResultDespiteRedisFailures ==
    [][\A i \in DOMAIN db.ops :
          (~db'.overlapped /\ InProgress(db'.ops[i]) = FALSE
           /\ db'.ops[i].pc # "new" /\ db.ops[i].pc # db'.ops[i].pc) =>
              /\ db.ops[i].kind = "get_thread" =>
                    db'.ops[i].result = get_thread("u1", "t1")
              /\ db.ops[i].kind = "thread_exists" =>
                    db'.ops[i].result = (get_thread("u1", "t1") # None)
              /\ db.ops[i].kind \in WriteOps => db'.ops[i].base_calls = 1
              /\ db'.ops[i].pc = "raised" =>
                    /\ db.ops[i].kind \in {"add_exchange",
                                           "replace_last_assistant_message"}
                    /\ get_thread("u1", "t1") = None]_vars

----------------------------------------------------------------------------
(* Properties of build_chat_clients (SpecClients) *)

\* the provider a configured name stands for: the three providers under
\* their spellings, and huggingface for every other name
ProviderOf(name) ==
    CASE name \in {"groq", " GROQ"} -> "groq"
      [] name \in {"google", "gemini"} -> "gemini"
      [] OTHER -> "huggingface"

\* C37: build_chat_clients returns one client for each configured provider
\* that has an API key, each provider once, ordered by the first place of the
\* provider in the list of the primary followed by the fallbacks, an
\* unrecognised name counting as huggingface
C37_ClientsInPriorityOrder ==
    rc.pc = "built" =>
        LET c == rc.config[1]
            wanted == <<ProviderOf(c.primary_provider)>>
                      \o [n \in DOMAIN c.fallback_providers |->
                             ProviderOf(c.fallback_providers[n])]
            name(n) == rc.clients[n].provider_name
            first(x) == CHOOSE n \in DOMAIN wanted :
                           wanted[n] = x /\ \A m \in 1..(n - 1) : wanted[m] # x
        IN /\ \A n \in DOMAIN rc.clients :
                 /\ name(n) \in c.keys
                 /\ \E m \in DOMAIN wanted : wanted[m] = name(n)
           /\ \A n \in DOMAIN wanted :
                 wanted[n] \in c.keys =>
                     \E m \in DOMAIN rc.clients : name(m) = wanted[n]
           /\ \A a, b \in DOMAIN rc.clients :
                 a < b => first(name(a)) < first(name(b))

\* an unrecognised primary, then groq and a second spelling of huggingface,
\* all keys set: the huggingface client, then the groq client
C37_Witness_UnknownPrimary ==
    /\ rc.pc = "built"
    /\ rc.config[1].primary_provider = "openai"
    /\ rc.config[1].fallback_providers = <<" GROQ", "hf">>
    /\ Len(rc.clients) = 2
    /\ rc.clients[1].provider_name = "huggingface"
    /\ rc.clients[2].provider_name = "groq"

----------------------------------------------------------------------------
(* The two retry loops on the same outcomes (SpecAgree) *)

\* C38: with the same max_attempts and backoff_factor and the same outcome
\* of every attempt, none with a wait hint, _post_json and
\* _post_json_with_retries have made the same number of attempts, slept the
\* same delays and reached the same end
C38_RetryLoopsAgree ==
    rc.twin # None =>
        /\ rc.http_calls = rc.twin[1].http_calls
        /\ rc.sleeps = rc.twin[1].sleeps
        /\ rc.pc = rc.twin[1].pc
        /\ rc.error = rc.twin[1].error

----------------------------------------------------------------------------
(* Termination of generate_response (FairSpec) *)

\* C39: every generate_response call returns a reply; its provider calls are
\* made one at a time, at most six of them and at most one of each kind
\* (risk, violence, emotion, strengths, patterns, generation)
C39_RequestTerminates ==
    /\ [](/\ Len(calls) <= 6
          /\ \A i, j \in DOMAIN calls : calls[i].kind = calls[j].kind => i = j
          /\ \A i \in DOMAIN calls :
                calls[i].kind \in {"risk", "violence", "emotion", "strengths",
                                   "patterns", "generation"})
    /\ <>[](Done /\ ~raised /\ reply # <<>>)

\* a standard request that made all six provider calls and returned
C39_Witness_SixCalls == Done /\ Len(calls) = 6 /\ ~raised /\ reply # <<>>

====
